---- MODULE Spec2Model ----
(***************************************************************************)
(* Model of the multi-agent customer service repository:                   *)
(*   - the three stdio tool bridges (agents/mcp_client.py MCPStdioClient,  *)
(*     agents/executors.py _start_mcp/_mcp_call, agents/data_agent_server  *)
(*     MCPClient) talking to the mcp_server.py main loop;                  *)
(*   - the router's handle_router with detect_intent and call_agent.       *)
(***************************************************************************)
EXTENDS Integers, Sequences, FiniteSets, TLC

(***************************************************************************)
(* Bounds of the bridge model.                                             *)
(***************************************************************************)
NumCallers == 2
MaxCalls == 2
MaxProcs == 2

Callers == 1..NumCallers

\* The three bridge implementations.
KindStdio == "MCPStdioClient"
KindExec == "executors"
KindAsync == "MCPClient"
Kinds == {KindStdio, KindExec, KindAsync}

VARIABLES
    kind,       \* which bridge implementation this behaviour is about
    handle,     \* self.proc / _MCP_SINGLETON: 0 is None, else a process id
    procs,      \* every subprocess spawned so far, by process id
    lock,       \* lock id -> holder (0: free); lock 0 is self._lock / self.lock,
                \* lock p is the threading.Lock of the _MCPProcess holding p
    waiters,    \* asyncio.Lock._waiters: FIFO of tasks blocked in acquire()
    pc,         \* caller -> position in call_tool / _mcp_call
    cur,        \* caller -> id of the call it is in (the req_id)
    mcp,        \* caller -> the _MCPProcess returned by _start_mcp() (executors)
    wt,         \* caller -> process whose stdin its write() call is writing to
    calls,      \* history: one record per call issued, by call id
    lockOrder,  \* history: call ids in the order they acquired a lock
    eofProcs,   \* history: processes whose stdout gave end-of-stream to a call
    \* --- one error/result response travelling from mcp_server.py to a bridge
    estage,     \* "off" | "serve" | "line" | "done"
    ekind,      \* "error" | "result": what the tool call produced
    emsg,       \* str(e): the message of the exception raised in the server
    ewire,      \* the message as it stands in the response line (JSON text)
    eout,       \* "none" | "raised" | "returned": how the bridge call ended
    etext,      \* the text of the RuntimeError the bridge raised
    \* --- one request in handle_router
    rpc,            \* position in handle_router ("off" outside SpecRouter)
    rtext,          \* user_text
    intent,         \* intent = detect_intent(user_text)
    cid,            \* cid = extract_customer_id(user_text): <<n>> or <<>> (None)
    log_short,      \* log_short
    pend,           \* the downstream call awaited now: <<>> or <<call>>
    active_ids,     \* active_ids
    customers_by_id,\* the customers parsed from the list reply, in reply order
    ri,             \* index in active_ids of the history call awaited
    open_rows,      \* open_rows
    data_text,      \* data_text
    support_text,   \* support_text
    final,          \* the lines of the returned answer
    issued,         \* history: the downstream calls in the order issued
    replies,        \* history: what each issued call came back with
    results,        \* history: the (ok, text) pair call_agent returned for each call
    \* --- the database behind mcp_server.py, when the data agent is modelled
    backend,
    \* --- the RPC boundaries: mcp_server.py's main loop and an agent's rpc_root
    srv,            \* the tool server process: "off", "up" or "crashed"
    sin,            \* history: the lines the tool server has consumed
    sout,           \* history: what it printed for each line (<<>> when nothing)
    sran,           \* history: the tool it executed for each line (<<>> when none)
    hin,            \* history: the bodies POSTed to an agent's endpoint
    hout,           \* history: the HTTP response to each
    hran,           \* history: whether the agent's handler ran for each
    \* --- several requests inside handle_router at once
    creq,           \* per request: its position, text, pending call and calls so far
    clog,           \* per request: its log_short
    \* --- one response in extract_text_from_a2a
    xresp,          \* resp, the downstream response (<<>> outside SpecExtract)
    xtext,          \* <<>> before the call, <<the returned text>> after it
    \* --- one request from a bridge's call_tool to mcp_server.py's main loop
    qreq,           \* the request call_tool builds (<<>> outside SpecWire)
    qline,          \* what was written to the server's stdin
    qdec            \* <<>>, or <<what the server's loop decoded>>

bvars == <<kind, handle, procs, lock, waiters, pc, cur, mcp, wt, calls,
           lockOrder, eofProcs>>

evars == <<estage, ekind, emsg, ewire, eout, etext>>

rvars == <<rpc, rtext, intent, cid, log_short, pend, active_ids, customers_by_id,
           ri, open_rows, data_text, support_text, final, issued, replies, results>>

svars == <<srv, sin, sout, sran, hin, hout, hran>>

cvars == <<creq, clog>>

pvars == <<xresp, xtext, qreq, qline, qdec>>

vars == <<bvars, evars, rvars, backend, svars, cvars, pvars>>

\* no database modelled: the data agent's replies are unconstrained
NoBackend == [on |-> FALSE, customers |-> {}, tickets |-> {}]

SOff ==
    /\ srv = "off" /\ sin = <<>> /\ sout = <<>> /\ sran = <<>>
    /\ hin = <<>> /\ hout = <<>> /\ hran = <<>>

COff == creq = <<>> /\ clog = <<>>

XOff == xresp = <<>> /\ xtext = <<>>

QOff == qreq = <<>> /\ qline = "" /\ qdec = <<>>

\* the parts of the model a specification does not exercise
RestOff == backend = NoBackend /\ SOff /\ COff /\ XOff /\ QOff

\* The parts of the model that a specification does not exercise stay put.
BOnly == UNCHANGED <<evars, rvars, backend, svars, cvars, pvars>>

EOff ==
    /\ estage = "off" /\ ekind = "result" /\ emsg = "" /\ ewire = ""
    /\ eout = "none" /\ etext = ""

(***************************************************************************)
(* Subprocesses: subprocess.Popen(..., stdin=PIPE, stdout=PIPE).           *)
(* stdin is the chunks written so far, rd the number the child consumed;   *)
(* stdout is the response lines printed, ord the number already read.      *)
(***************************************************************************)
Popen == [alive |-> TRUE, stdin |-> <<>>, rd |-> 0, stdout |-> <<>>, ord |-> 0]

\* A request line json.dumps(req) + "\n" reaches the pipe as a body chunk
\* followed by the chunk that ends with the newline.
Body(id) == [id |-> id, part |-> "body"]
Nl(id) == [id |-> id, part |-> "nl"]

\* proc.poll() is None
Poll(p) == procs[p].alive

\* Mutant: the liveness test forgets poll().
RunningNoPoll == handle # 0

\* Mutant: the test at the head of start is left out.
RunningNever == FALSE

\* `self.proc and self.proc.poll() is None` (start, _start_mcp, ensure_started)
Running == handle # 0 /\ Poll(handle)

NewCall(c) ==
    [caller |-> c, seen |-> 0, sawDead |-> FALSE, spawned |-> 0, target |-> 0,
     writes |-> 0, rfrom |-> 0, line |-> "none", respid |-> 0,
     outcome |-> "pending",
     eofBefore |-> eofProcs]

\* Mutant: a lock object made per caller instead of per bridge.
LockPerCaller(c) == c

\* The lock a caller takes: mcp.lock of its _MCPProcess (executors), else the
\* bridge object's single lock.
LockOf(c) == IF kind = KindExec THEN mcp[c] ELSE 0

\* Mutant: the critical section is entered without taking the lock.
CanAcquireNoLock(l) == TRUE

\* threading.Lock.acquire / the fast path of asyncio.Lock.acquire
CanAcquire(l) == lock[l] = 0

\* The process a caller's proc.stdin / proc.stdout expression denotes now:
\* the local `proc` (executors) or the attribute self.proc read at that moment.
ProcNow(c) == IF kind = KindExec THEN mcp[c] ELSE handle

BInit ==
    /\ kind \in Kinds
    /\ handle = 0
    /\ procs = <<>>
    /\ lock = [l \in 0..(MaxProcs + 1) |-> 0]
    /\ waiters = <<>>
    /\ pc = [c \in Callers |-> "idle"]
    /\ cur = [c \in Callers |-> 0]
    /\ mcp = [c \in Callers |-> 0]
    /\ wt = [c \in Callers |-> 0]
    /\ calls = <<>>
    /\ lockOrder = <<>>
    /\ eofProcs = {}

\* A caller enters call_tool / _mcp_call.  The data agent's call_tool begins
\* with `async with self.lock`: the task takes the free lock at once or joins
\* the FIFO of waiters.
Invoke(c) ==
    /\ pc[c] = "idle"
    /\ \A d \in Callers : d < c => pc[d] # "idle"   \* idle callers are interchangeable
    /\ Len(calls) < MaxCalls
    /\ LET id == Len(calls) + 1 IN
       /\ calls' = Append(calls, NewCall(c))
       /\ cur' = [cur EXCEPT ![c] = id]
       /\ IF kind = KindAsync
          THEN IF CanAcquire(0) /\ waiters = <<>>
               THEN /\ lock' = [lock EXCEPT ![0] = c]
                    /\ lockOrder' = Append(lockOrder, id)
                    /\ pc' = [pc EXCEPT ![c] = "start"]
                    /\ UNCHANGED waiters
               ELSE /\ waiters' = Append(waiters, c)
                    /\ pc' = [pc EXCEPT ![c] = "waiting"]
                    /\ UNCHANGED <<lock, lockOrder>>
          ELSE /\ pc' = [pc EXCEPT ![c] = "start"]
               /\ UNCHANGED <<lock, lockOrder, waiters>>
    /\ UNCHANGED <<kind, handle, procs, mcp, wt, eofProcs>>
    /\ BOnly

\* start() / _start_mcp() up to the decision: return the running process or go
\* on to Popen.  ensure_started() runs inside the lock with no await, so there
\* the check and the Popen are one step.
StartCheck(c) ==
    /\ pc[c] = "start"
    /\ LET id == cur[c]
           dead == handle # 0 /\ ~Poll(handle) IN
       IF Running
       THEN /\ calls' = [calls EXCEPT ![id].seen = handle, ![id].sawDead = dead]
            /\ mcp' = [mcp EXCEPT ![c] = IF kind = KindExec THEN handle ELSE 0]
            /\ pc' = [pc EXCEPT ![c] = IF kind = KindAsync THEN "write" ELSE "acquire"]
            /\ UNCHANGED <<handle, procs>>
       ELSE IF kind = KindAsync
            THEN /\ Len(procs) < MaxProcs
                 /\ procs' = Append(procs, Popen)
                 /\ handle' = Len(procs) + 1
                 /\ calls' = [calls EXCEPT ![id].seen = handle,
                                           ![id].sawDead = dead,
                                           ![id].spawned = Len(procs) + 1]
                 /\ pc' = [pc EXCEPT ![c] = "write"]
                 /\ UNCHANGED mcp
            ELSE /\ calls' = [calls EXCEPT ![id].seen = handle,
                                           ![id].sawDead = dead]
                 /\ pc' = [pc EXCEPT ![c] = "spawn"]
                 /\ UNCHANGED <<handle, procs, mcp>>
    /\ UNCHANGED <<kind, lock, waiters, cur, wt, lockOrder, eofProcs>>
    /\ BOnly

\* self.proc = subprocess.Popen(...) / _MCP_SINGLETON = _MCPProcess(proc, Lock())
Spawn(c) ==
    /\ pc[c] = "spawn"
    /\ Len(procs) < MaxProcs
    /\ LET p == Len(procs) + 1 IN
       /\ procs' = Append(procs, Popen)
       /\ handle' = p
       /\ mcp' = [mcp EXCEPT ![c] = IF kind = KindExec THEN p ELSE 0]
       /\ calls' = [calls EXCEPT ![cur[c]].spawned = p]
    /\ pc' = [pc EXCEPT ![c] = "acquire"]
    /\ UNCHANGED <<kind, lock, waiters, cur, wt, lockOrder, eofProcs>>
    /\ BOnly

\* `with self._lock:` / `with mcp.lock:` (threading.Lock: any waiter may win)
Acquire(c) ==
    /\ pc[c] = "acquire"
    /\ CanAcquire(LockOf(c))
    /\ lock' = [lock EXCEPT ![LockOf(c)] = c]
    /\ lockOrder' = Append(lockOrder, cur[c])
    /\ pc' = [pc EXCEPT ![c] = "write"]
    /\ UNCHANGED <<kind, handle, procs, waiters, cur, mcp, wt, calls, eofProcs>>
    /\ BOnly

\* Leaving the `with` / `async with` block, normally or by an exception.
\* asyncio.Lock.release wakes the first waiter, which then owns the lock.
LockAfterRelease(c) ==
    IF kind = KindAsync /\ waiters # <<>>
    THEN [lock EXCEPT ![0] = Head(waiters)]
    ELSE [lock EXCEPT ![LockOf(c)] = 0]

WaitersAfterRelease == IF kind = KindAsync /\ waiters # <<>> THEN Tail(waiters) ELSE waiters

LockOrderAfterRelease ==
    IF kind = KindAsync /\ waiters # <<>>
    THEN Append(lockOrder, cur[Head(waiters)])
    ELSE lockOrder

\* The call ends for its caller (return or raise) and the lock is released.
Finish(c, outcome) ==
    /\ lock' = LockAfterRelease(c)
    /\ waiters' = WaitersAfterRelease
    /\ lockOrder' = LockOrderAfterRelease
    /\ pc' = [x \in Callers |->
                IF x = c THEN "idle"
                ELSE IF kind = KindAsync /\ waiters # <<>> /\ x = Head(waiters)
                     THEN "start" ELSE pc[x]]
    /\ wt' = [wt EXCEPT ![c] = 0]
    /\ mcp' = [mcp EXCEPT ![c] = 0]
    /\ cur' = [cur EXCEPT ![c] = 0]

\* proc.stdin.write(json.dumps(req) + "\n"): the first part of the line.
\* Writing to a pipe whose reader has exited raises BrokenPipeError.
WriteBody(c) ==
    /\ pc[c] = "write"
    /\ LET t == ProcNow(c)
           id == cur[c] IN
       IF Poll(t)
       THEN /\ procs' = [procs EXCEPT ![t].stdin = Append(@, Body(id))]
            /\ wt' = [wt EXCEPT ![c] = t]
            /\ calls' = [calls EXCEPT ![id].target = t, ![id].writes = @ + 1]
            /\ pc' = [pc EXCEPT ![c] = "write2"]
            /\ UNCHANGED <<lock, waiters, lockOrder, mcp, cur>>
       ELSE /\ calls' = [calls EXCEPT ![id].target = t, ![id].outcome = "raised_pipe"]
            /\ Finish(c, "raised_pipe")
            /\ UNCHANGED procs
    /\ UNCHANGED <<kind, handle, eofProcs>>
    /\ BOnly

\* The rest of the same write()/flush(): the part ending in the newline.
WriteNl(c) ==
    /\ pc[c] = "write2"
    /\ LET t == wt[c]
           id == cur[c] IN
       IF Poll(t)
       THEN /\ procs' = [procs EXCEPT ![t].stdin = Append(@, Nl(id))]
            /\ pc' = [pc EXCEPT ![c] = "read"]
            /\ UNCHANGED <<lock, waiters, lockOrder, mcp, cur, wt, calls>>
       ELSE /\ calls' = [calls EXCEPT ![id].outcome = "raised_pipe"]
            /\ Finish(c, "raised_pipe")
            /\ UNCHANGED procs
    /\ UNCHANGED <<kind, handle, eofProcs>>
    /\ BOnly

\* What the caller does with the line it read: `if "error" in resp: raise`,
\* else `return resp.get("result", {})`.  The response's id is not looked at.
Outcome(id, resp) == IF resp.kind = "error" THEN "raised_tool" ELSE "returned"

\* Mutant: end-of-stream is retried silently (the request is written again)
\* instead of being raised to the caller.
ReadRetrying(c) ==
    /\ pc[c] = "read"
    /\ LET r == ProcNow(c)
           id == cur[c]
           P == procs[r] IN
       IF P.ord < Len(P.stdout)
       THEN LET resp == P.stdout[P.ord + 1] IN
            /\ procs' = [procs EXCEPT ![r].ord = @ + 1]
            /\ calls' = [calls EXCEPT ![id].rfrom = r, ![id].line = "resp",
                                      ![id].respid = resp.id,
                                      ![id].outcome = Outcome(id, resp)]
            /\ Finish(c, Outcome(id, resp))
            /\ UNCHANGED eofProcs
       ELSE /\ ~P.alive
            /\ calls' = [calls EXCEPT ![id].rfrom = r, ![id].line = "eof"]
            /\ eofProcs' = eofProcs \cup {r}
            /\ pc' = [pc EXCEPT ![c] = "write"]
            /\ UNCHANGED <<procs, lock, waiters, lockOrder, wt, mcp, cur>>
    /\ UNCHANGED <<kind, handle>>
    /\ BOnly

\* line = proc.stdout.readline(): the next unread response line, end-of-stream
\* ("") once the process is dead and its output drained, else the call blocks.
Read(c) ==
    /\ pc[c] = "read"
    /\ LET r == ProcNow(c)
           id == cur[c]
           P == procs[r] IN
       IF P.ord < Len(P.stdout)
       THEN LET resp == P.stdout[P.ord + 1] IN
            /\ procs' = [procs EXCEPT ![r].ord = @ + 1]
            /\ calls' = [calls EXCEPT ![id].rfrom = r, ![id].line = "resp",
                                      ![id].respid = resp.id,
                                      ![id].outcome = Outcome(id, resp)]
            /\ Finish(c, Outcome(id, resp))
            /\ UNCHANGED eofProcs
       ELSE /\ ~P.alive
            /\ calls' = [calls EXCEPT ![id].rfrom = r, ![id].line = "eof",
                                      ![id].outcome = "raised_io"]
            /\ eofProcs' = eofProcs \cup {r}
            /\ Finish(c, "raised_io")
            /\ UNCHANGED procs
    /\ UNCHANGED <<kind, handle>>
    /\ BOnly

(***************************************************************************)
(* mcp_server.py main loop: `for line in sys.stdin`.                       *)
(***************************************************************************)
\* Index in stdin of the chunk ending the next unconsumed line (0: none yet).
NextNl(P) ==
    LET idx == {i \in (P.rd + 1)..Len(P.stdin) : P.stdin[i].part = "nl"} IN
    IF idx = {} THEN 0 ELSE CHOOSE i \in idx : \A j \in idx : i <= j

\* json.loads(line) succeeds on a line that is one whole request.
ValidLine(P, n) ==
    /\ n = P.rd + 2
    /\ P.stdin[P.rd + 1] = Body(P.stdin[n].id)

\* send({"jsonrpc": "2.0", "id": req_id, ...}): the id of the request is echoed.
ResponseId(reqid) == reqid

\* One iteration: a tools/call request is answered with a result, or with an
\* error when the tool is unknown or raises.  A line json.loads cannot parse
\* raises outside the try block and ends the process.
Serve(p) ==
    /\ p \in 1..Len(procs)
    /\ Poll(p)
    /\ LET P == procs[p]
           n == NextNl(P) IN
       /\ n # 0
       /\ IF ValidLine(P, n)
          THEN \E k \in {"result", "error"} :
                 procs' = [procs EXCEPT ![p].rd = n,
                             ![p].stdout = Append(@, [id |-> ResponseId(P.stdin[n].id),
                                                      kind |-> k])]
          ELSE procs' = [procs EXCEPT ![p].alive = FALSE]
    /\ UNCHANGED <<kind, handle, lock, waiters, pc, cur, mcp, wt, calls,
                   lockOrder, eofProcs>>
    /\ BOnly

\* The subprocess exits (crash, kill) at any moment.
Die(p) ==
    /\ p \in 1..Len(procs)
    /\ Poll(p)
    /\ procs' = [procs EXCEPT ![p].alive = FALSE]
    /\ UNCHANGED <<kind, handle, lock, waiters, pc, cur, mcp, wt, calls,
                   lockOrder, eofProcs>>
    /\ BOnly

BNext ==
    \/ \E c \in Callers : Invoke(c)
    \/ \E c \in Callers : StartCheck(c)
    \/ \E c \in Callers : Spawn(c)
    \/ \E c \in Callers : Acquire(c)
    \/ \E c \in Callers : WriteBody(c)
    \/ \E c \in Callers : WriteNl(c)
    \/ \E c \in Callers : Read(c)
    \/ \E p \in 1..MaxProcs : Serve(p)
    \/ \E p \in 1..MaxProcs : Die(p)

NoIntent ==
    [has_customer_id |-> FALSE, account_help |-> FALSE, cancel |-> FALSE,
     billing |-> FALSE, list_active_open |-> FALSE]

\* Everything of a request before handle_router has run.
RBlank ==
    /\ intent = NoIntent /\ cid = <<>> /\ log_short = <<>> /\ pend = <<>>
    /\ active_ids = <<>> /\ customers_by_id = <<>> /\ ri = 0 /\ open_rows = <<>>
    /\ data_text = "" /\ support_text = "" /\ final = <<>>
    /\ issued = <<>> /\ replies = <<>> /\ results = <<>>

ROff == rpc = "off" /\ rtext = "" /\ RBlank

\* The bridge as constructed, for the specifications that do not exercise it.
BOff == BInit /\ kind = KindAsync

Init == BInit /\ EOff /\ ROff /\ RestOff

Next == BNext

Spec == Init /\ [][Next]_vars

(***************************************************************************)
(* The bridge in front of a backend that is not mcp_server.py: the script  *)
(* path is configuration (mcp_script_path, MCP_SCRIPT, MCP_SERVER_PY), and *)
(* such a program may answer a request with a line carrying another id.    *)
(***************************************************************************)
ForeignServe(p) ==
    /\ p \in 1..Len(procs)
    /\ Poll(p)
    /\ LET P == procs[p]
           n == NextNl(P) IN
       /\ n # 0
       /\ ValidLine(P, n)
       /\ procs' = [procs EXCEPT ![p].rd = n,
                      ![p].stdout = Append(@, [id |-> 0, kind |-> "result"])]
    /\ UNCHANGED <<kind, handle, lock, waiters, pc, cur, mcp, wt, calls,
                   lockOrder, eofProcs>>
    /\ BOnly

ONext ==
    \/ BNext
    \/ \E p \in 1..MaxProcs : ForeignServe(p)

SpecOpaque == Init /\ [][ONext]_vars

(***************************************************************************)
(* Claims about the bridges.                                               *)
(***************************************************************************)
CallIds == 1..Len(calls)
ProcIds == 1..Len(procs)

\* A caller that has begun writing its request and has not finished reading.
InCycle(c) == pc[c] \in {"write2", "read"}

\* The subprocesses whose pipes a caller in its write-read cycle is using.
Engaged(c) == {wt[c], ProcNow(c)}

\* C1: for every bridge and any interleaving of callers, a caller that is
\* anywhere from its write to the end of its read holds the bridge's lock
\* (acquired before the write, released only after the read), and no two
\* callers are at the same time between write and read on the same subprocess.
C1_LockSpansWriteRead ==
    /\ \A c \in Callers :
          pc[c] \in {"write", "write2", "read"} => lock[LockOf(c)] = c
    /\ \A c, d \in Callers :
          (c # d /\ InCycle(c) /\ InCycle(d)) => Engaged(c) \cap Engaged(d) = {}

\* C1 witness: one caller waits for its response line while the other caller
\* is blocked on the same lock.
C1_Witness ==
    \E c, d \in Callers :
        /\ c # d
        /\ pc[c] = "read"
        /\ pc[d] \in {"acquire", "waiting"}
        /\ (kind = KindExec => mcp[d] = mcp[c])

\* Framing of one subprocess's stdin: every newline chunk directly follows the
\* body chunk of the same call, and a body chunk is followed by its own
\* newline chunk unless it is the last thing written so far.
WellFramed(P) ==
    \A i \in 1..Len(P.stdin) :
        /\ P.stdin[i].part = "nl" => (i > 1 /\ P.stdin[i - 1] = Body(P.stdin[i].id))
        /\ P.stdin[i].part = "body" =>
              (i = Len(P.stdin) \/ P.stdin[i + 1] = Nl(P.stdin[i].id))

\* Number of request lines begun for call k, over all subprocesses.
LinesOf(k) ==
    Cardinality({<<p, i>> \in ProcIds \X (1..(2 * MaxCalls)) :
                    i <= Len(procs[p].stdin) /\ procs[p].stdin[i] = Body(k)})

\* Position of call k in the sequence of lock acquisitions.
LockPos(k) == CHOOSE i \in 1..Len(lockOrder) : lockOrder[i] = k

Framed == (\A p \in ProcIds : WellFramed(procs[p])) /\ (\A k \in CallIds : LinesOf(k) <= 1)

\* The request lines on each stdin are in the order the calls were issued.
InIssueOrder ==
    \A p \in ProcIds : \A i, j \in 1..Len(procs[p].stdin) :
        (i < j /\ procs[p].stdin[i].part = "body" /\ procs[p].stdin[j].part = "body")
            => procs[p].stdin[i].id < procs[p].stdin[j].id

\* The request lines on each stdin are in the order the calls took the lock.
InLockOrder ==
    \A p \in ProcIds : \A i, j \in 1..Len(procs[p].stdin) :
        (i < j /\ procs[p].stdin[i].part = "body" /\ procs[p].stdin[j].part = "body")
            => LockPos(procs[p].stdin[i].id) < LockPos(procs[p].stdin[j].id)

\* C2 as stated: on every stdin the written chunks form whole request lines,
\* one per call, never interleaved, in the order the calls were issued.
C2_Original == Framed /\ InIssueOrder

\* C2 amended: whole request lines, one per call, never interleaved, in the
\* order in which the calls acquired the lock; for the data agent's MCPClient,
\* whose asyncio lock is taken on entry and is FIFO, that is the issue order.
C2_FramedInLockOrder ==
    /\ Framed
    /\ InLockOrder
    /\ (kind = KindAsync => InIssueOrder)

\* C2 witness: two concurrent calls whose whole lines are on the same stdin,
\* the later-issued call having taken the lock first.
C2_Witness ==
    \E p \in ProcIds :
        /\ Len(procs[p].stdin) = 4
        /\ procs[p].stdin[1] = Body(2)
        /\ procs[p].stdin[3] = Body(1)

\* C3: a call returns a result only if the response line it read carries the
\* id of its own request.
C3_ReturnsOnlyMatchingId ==
    \A k \in CallIds : calls[k].outcome = "returned" => calls[k].respid = k

\* C4: a bridge never has two live subprocesses at the same time.
C4_AtMostOneLiveProcess ==
    Cardinality({p \in ProcIds : procs[p].alive}) <= 1

\* C5: a call that begins when the bridge's subprocess has exited spawns a
\* fresh subprocess, sends its request only to a process newer than the exited
\* one, and does not raise an I/O error on account of the old process: it can
\* fail that way only if the process it talked to has died as well.
C5_RestartsAfterExit ==
    \A k \in CallIds :
        LET K == calls[k] IN
        K.sawDead =>
            /\ (K.target # 0 \/ K.outcome # "pending") => K.spawned > K.seen
            /\ K.target # 0 => K.target > K.seen
            /\ K.rfrom # 0 => K.rfrom > K.seen
            /\ K.outcome = "raised_pipe" => ~procs[K.target].alive
            /\ K.outcome = "raised_io" => ~procs[K.rfrom].alive

\* C5 witness: a call completed on a process, the process exited, and the next
\* call spawned a new one and returned the result it read from it.
C5_Witness ==
    \E j, k \in CallIds :
        /\ j < k
        /\ calls[j].outcome = "returned"
        /\ calls[k].sawDead /\ calls[k].seen = calls[j].rfrom
        /\ calls[k].outcome = "returned"
        /\ calls[k].rfrom = calls[k].spawned
        /\ calls[k].respid = k

\* The call of caller c is past start() / _start_mcp() / ensure_started().
PastStart(k) ==
    \/ cur[calls[k].caller] # k
    \/ pc[calls[k].caller] \in {"acquire", "write", "write2", "read"}

\* C6: a call whose read yields end-of-stream raises to its caller and is over;
\* no call ever writes its request more than once; and a call issued after a
\* process has given end-of-stream never sends to that process: when it finds
\* that process in the handle it spawns a fresh one.
C6_EofRaisesNoResend ==
    /\ \A k \in CallIds :
          calls[k].line = "eof" =>
              /\ calls[k].outcome = "raised_io"
              /\ calls[k].writes = 1
              /\ cur[calls[k].caller] # k
    /\ \A k \in CallIds : calls[k].writes <= 1 /\ LinesOf(k) <= 1
    /\ \A k \in CallIds :
          /\ calls[k].target \notin calls[k].eofBefore
          /\ (PastStart(k) /\ calls[k].seen \in calls[k].eofBefore)
                => (calls[k].spawned # 0 /\ calls[k].spawned \notin calls[k].eofBefore)

\* C6 witness: one call got end-of-stream from a process and raised, and the
\* call issued after it found that process dead and spawned another.
C6_Witness ==
    \E j, k \in CallIds :
        /\ calls[j].line = "eof" /\ calls[j].writes = 1
        /\ calls[j].rfrom \in calls[k].eofBefore
        /\ calls[k].seen = calls[j].rfrom
        /\ calls[k].spawned # 0
        /\ calls[k].target = calls[k].spawned

(***************************************************************************)
(* An error reported by the tool server, from the exception in             *)
(* mcp_server.py to the RuntimeError a bridge call raises.  Texts are      *)
(* strings over a small alphabet holding the characters that JSON and      *)
(* Python's repr treat specially.                                          *)
(***************************************************************************)
MaxMsgLen == 3

Alphabet == {"n", "\\", "'", "\"", "\n"}

RECURSIVE StringsOfLen(_)
StringsOfLen(n) ==
    IF n = 0 THEN {""}
    ELSE {s \o ch : s \in StringsOfLen(n - 1), ch \in Alphabet}

Messages == UNION {StringsOfLen(n) : n \in 0..MaxMsgLen}

Chr(s, i) == SubSeq(s, i, i)

HasChar(s, ch) == \E i \in 1..Len(s) : Chr(s, i) = ch

\* needle occurs in hay as a contiguous substring (Python's `in` on str)
IsSubstr(needle, hay) ==
    \E i \in 0..(Len(hay) - Len(needle)) : SubSeq(hay, i + 1, i + Len(needle)) = needle

\* json.dumps of a str: the characters between the quotes
RECURSIVE JsonEscape(_, _)
JsonEscape(s, i) ==
    IF i > Len(s) THEN ""
    ELSE LET ch == Chr(s, i) IN
         (IF ch = "\"" THEN "\\\""
          ELSE IF ch = "\\" THEN "\\\\"
          ELSE IF ch = "\n" THEN "\\n"
          ELSE ch) \o JsonEscape(s, i + 1)

\* Mutant: the string is written between quotes as it stands.
JsonDumpsStrRaw(s) == "\"" \o s \o "\""

\* json.dumps(resp) in send(): the "message" string as it stands in the line
JsonDumpsStr(s) == "\"" \o JsonEscape(s, 1) \o "\""

\* json.loads of a JSON string: the escapes undone
RECURSIVE JsonUnescape(_, _)
JsonUnescape(w, i) ==
    IF i > Len(w) THEN ""
    ELSE IF Chr(w, i) = "\\"
         THEN (IF Chr(w, i + 1) = "n" THEN "\n" ELSE Chr(w, i + 1))
                  \o JsonUnescape(w, i + 2)
         ELSE Chr(w, i) \o JsonUnescape(w, i + 1)

\* Mutant: the line's text is taken as it stands, escapes and all.
JsonLoadsRaw(w) == SubSeq(w, 2, Len(w) - 1)

\* resp = json.loads(line): the "message" string of the response
JsonLoadsStr(w) == JsonUnescape(SubSeq(w, 2, Len(w) - 1), 1)

\* Python's repr of a str: double quotes when the text holds ' and no ",
\* else single quotes; backslash, newline and the chosen quote are escaped.
PyQuote(s) == IF HasChar(s, "'") /\ ~HasChar(s, "\"") THEN "\"" ELSE "'"

RECURSIVE PyEscape(_, _, _)
PyEscape(s, i, q) ==
    IF i > Len(s) THEN ""
    ELSE LET ch == Chr(s, i) IN
         (IF ch = "\\" THEN "\\\\"
          ELSE IF ch = "\n" THEN "\\n"
          ELSE IF ch = q THEN "\\" \o q
          ELSE ch) \o PyEscape(s, i + 1, q)

PyRepr(s) == PyQuote(s) \o PyEscape(s, 1, PyQuote(s)) \o PyQuote(s)

\* f"MCP error: {resp['error']}" with resp['error'] == {"message": msg}
McpErrorText(msg) == "MCP error: {'message': " \o PyRepr(msg) \o "}"

\* Mutant: the error check is left out.
HasErrorNever(k) == FALSE

\* `if "error" in resp:`
HasError(k) == k = "error"

EOnly == UNCHANGED <<bvars, rvars, backend, svars, cvars, pvars>>

\* A tools/call is being handled by the server: the tool returns, or raises an
\* exception whose str() is emsg (e.g. "Unknown tool: " + the requested name).
EInit ==
    /\ estage = "serve"
    /\ ekind \in {"error", "result"}
    /\ emsg \in Messages
    /\ (ekind = "result" => emsg = "")
    /\ ewire = ""
    /\ eout = "none"
    /\ etext = ""

\* except Exception as e: send({..., "error": {"message": str(e)}}), or
\* send({..., "result": {"content": result}})
ServerSend ==
    /\ estage = "serve"
    /\ ewire' = JsonDumpsStr(emsg)
    /\ estage' = "line"
    /\ UNCHANGED <<ekind, emsg, eout, etext>>
    /\ EOnly

\* The bridge call after readline(): resp = json.loads(line); raise
\* RuntimeError(f"MCP error: {resp['error']}") or return resp.get("result", {})
BridgeReceive ==
    /\ estage = "line"
    /\ estage' = "done"
    /\ IF HasError(ekind)
       THEN /\ eout' = "raised"
            /\ etext' = McpErrorText(JsonLoadsStr(ewire))
       ELSE /\ eout' = "returned"
            /\ etext' = ""
    /\ UNCHANGED <<ekind, emsg, ewire>>
    /\ EOnly

ENext ==
    \/ ServerSend
    \/ BridgeReceive

InitErr == EInit /\ BOff /\ ROff /\ RestOff

SpecErr == InitErr /\ [][ENext]_vars

\* Messages that Python's repr leaves as they are: no backslash, no control
\* character, and not both kinds of quote.
ReprPlain(s) ==
    /\ ~HasChar(s, "\\")
    /\ ~HasChar(s, "\n")
    /\ ~(HasChar(s, "'") /\ HasChar(s, "\""))

\* The raised text with the message standing in it unchanged between quotes q.
Quoted(q, msg) == "MCP error: {'message': " \o q \o msg \o q \o "}"

MaxWords == 2

\* Snippets the request texts are built from (joined by single spaces).
Vocabulary ==
    {"Active Customers with OPEN tickets", "Cancel", "payment", "Help", "ID 5",
     "cancel billing for Customer ID: 12 account"}

RECURSIVE TextsOfWords(_)
TextsOfWords(n) ==
    IF n = 0 THEN {""}
    ELSE IF n = 1 THEN Vocabulary
    ELSE {t \o " " \o w : t \in TextsOfWords(n - 1), w \in Vocabulary}

Texts == UNION {TextsOfWords(n) : n \in 0..MaxWords}

Uppers == "ABCDEFGHIJKLMNOPQRSTUVWXYZ"
Lowers == "abcdefghijklmnopqrstuvwxyz"
DigitChars == "0123456789"

\* s[i], or "" outside the string
At(s, i) == IF i >= 1 /\ i <= Len(s) THEN SubSeq(s, i, i) ELSE ""

\* s[a-1:b] with the slice clipped to the string, as Python clips it
Slice(s, a, b) ==
    IF a > Len(s) \/ b < a THEN ""
    ELSE SubSeq(s, a, IF b > Len(s) THEN Len(s) ELSE b)

IndexIn(alphabet, ch) ==
    IF \E i \in 1..Len(alphabet) : Chr(alphabet, i) = ch
    THEN CHOOSE i \in 1..Len(alphabet) : Chr(alphabet, i) = ch
    ELSE 0

LowerCh(ch) == IF IndexIn(Uppers, ch) # 0 THEN Chr(Lowers, IndexIn(Uppers, ch)) ELSE ch

\* the characters a..b of s, each lowered
RECURSIVE LowerFrom(_, _, _)
LowerFrom(s, a, b) ==
    IF a > b THEN ""
    ELSE IF a = b THEN LowerCh(Chr(s, a))
    ELSE LowerFrom(s, a, (a + b) \div 2) \o LowerFrom(s, ((a + b) \div 2) + 1, b)

\* Mutant: the text is searched as typed.
LowerIdentity(s) == s

\* str.lower()
Lower(s) == LowerFrom(s, 1, Len(s))

IsSpace(ch) == ch \in {" ", "\n", "\t"}
IsDigit(ch) == ch # "" /\ IndexIn(DigitChars, ch) # 0
IsWordCh(ch) ==
    ch # "" /\ (IndexIn(Lowers, ch) # 0 \/ IndexIn(Uppers, ch) # 0 \/ IsDigit(ch) \/ ch = "_")

\* \b between s[i-1] and s[i]
AtBoundary(s, i) == IsWordCh(At(s, i - 1)) # IsWordCh(At(s, i))

RECURSIVE SkipSpaces(_, _)
SkipSpaces(s, i) == IF IsSpace(At(s, i)) THEN SkipSpaces(s, i + 1) ELSE i

RECURSIVE DigitsEnd(_, _)
DigitsEnd(s, i) == IF IsDigit(At(s, i)) THEN DigitsEnd(s, i + 1) ELSE i

\* int() of a string of digits
RECURSIVE StrToNat(_)
StrToNat(d) ==
    IF d = "" THEN 0
    ELSE 10 * StrToNat(SubSeq(d, 1, Len(d) - 1)) + (IndexIn(DigitChars, Chr(d, Len(d))) - 1)

\* str() of a natural number
RECURSIVE NatToStr(_)
NatToStr(n) ==
    IF n < 10 THEN Chr(DigitChars, n + 1)
    ELSE NatToStr(n \div 10) \o Chr(DigitChars, (n % 10) + 1)

\* (\d+)\b at position c: <<the number>>, or <<>> when it does not match
DigitsAt(s, c) ==
    LET e == DigitsEnd(s, c) IN
    IF e > c /\ ~IsWordCh(At(s, e)) THEN <<StrToNat(SubSeq(s, c, e - 1))>> ELSE <<>>

\* \s*[:#]?\s*(\d+)\b at position j
NumberAt(s, j) ==
    LET a == SkipSpaces(s, j)
        b == IF At(s, a) \in {":", "#"} THEN a + 1 ELSE a IN
    DigitsAt(s, SkipSpaces(s, b))

\* \bcustomer\s*(?:id)?\s*[:#]?\s*(\d+)\b matched at position i, re.I
CustomerAt(s, i) ==
    IF AtBoundary(s, i) /\ Lower(Slice(s, i, i + 7)) = "customer"
    THEN LET j == SkipSpaces(s, i + 8)
             withId == IF Lower(Slice(s, j, j + 1)) = "id" THEN NumberAt(s, j + 2) ELSE <<>> IN
         IF withId # <<>> THEN withId ELSE NumberAt(s, j)
    ELSE <<>>

\* \bID\s*(\d+)\b matched at position i, re.I
IdAt(s, i) ==
    IF AtBoundary(s, i) /\ Lower(Slice(s, i, i + 1)) = "id"
    THEN DigitsAt(s, SkipSpaces(s, i + 2))
    ELSE <<>>

\* re.search: the leftmost position where the pattern matches
FirstCustomer(s) ==
    LET hits == {i \in 1..Len(s) : CustomerAt(s, i) # <<>>} IN
    IF hits = {} THEN <<>> ELSE CustomerAt(s, CHOOSE i \in hits : \A j \in hits : i <= j)

FirstId(s) ==
    LET hits == {i \in 1..Len(s) : IdAt(s, i) # <<>>} IN
    IF hits = {} THEN <<>> ELSE IdAt(s, CHOOSE i \in hits : \A j \in hits : i <= j)

\* extract_customer_id: <<n>> for int n, <<>> for None
extract_customer_id(text) ==
    IF FirstCustomer(text) # <<>> THEN FirstCustomer(text) ELSE FirstId(text)

\* any(k in t for k in keywords)
AnyIn(keywords, t) == \E k \in keywords : IsSubstr(k, t)

\* Mutant: the groups are tried in turn and the first that matches wins.
detect_intent_first(text) ==
    LET t == Lower(text)
        a == AnyIn({"account", "upgrade", "login", "access", "help"}, t)
        c == AnyIn({"cancel", "cancellation", "subscription"}, t)
        b == AnyIn({"billing", "charge", "charged", "invoice", "payment"}, t) IN
    [has_customer_id |-> extract_customer_id(text) # <<>>,
     account_help |-> a,
     cancel |-> ~a /\ c,
     billing |-> ~a /\ ~c /\ b,
     list_active_open |-> (IsSubstr("active customers", t)
                           /\ (IsSubstr("open ticket", t) \/ IsSubstr("open tickets", t)))]

detect_intent(text) ==
    LET t == Lower(text) IN
    [has_customer_id |-> extract_customer_id(text) # <<>>,
     account_help |-> AnyIn({"account", "upgrade", "login", "access", "help"}, t),
     cancel |-> AnyIn({"cancel", "cancellation", "subscription"}, t),
     billing |-> AnyIn({"billing", "charge", "charged", "invoice", "payment"}, t),
     list_active_open |-> (IsSubstr("active customers", t)
                           /\ (IsSubstr("open ticket", t) \/ IsSubstr("open tickets", t)))]

(***************************************************************************)
(* The router: formatting helpers and the downstream agents' replies.      *)
(***************************************************************************)
MaxCustomers == 2

\* active_ids = active_ids[:15]
FanoutCap == 15

\* now_iso(): the clock is read once per request in this model
Now == "2025-01-01T00:00:00Z"

DATA_URL == "http://127.0.0.1:8001"
SUPPORT_URL == "http://127.0.0.1:8002"
RPC_PATH == "/"

\* the characters a..b of s with every ch replaced by `by`
RECURSIVE ReplaceCh(_, _, _, _, _)
ReplaceCh(s, a, b, ch, by) ==
    IF a > b THEN ""
    ELSE IF a = b THEN (IF Chr(s, a) = ch THEN by ELSE Chr(s, a))
    ELSE ReplaceCh(s, a, (a + b) \div 2, ch, by)
            \o ReplaceCh(s, ((a + b) \div 2) + 1, b, ch, by)

\* str.replace(ch, by) for a one-character ch
Replace(s, ch, by) == IF HasChar(s, ch) THEN ReplaceCh(s, 1, Len(s), ch, by) ELSE s

RECURSIVE LStrip(_)
LStrip(s) == IF s # "" /\ IsSpace(Chr(s, 1)) THEN LStrip(SubSeq(s, 2, Len(s))) ELSE s

RECURSIVE RStrip(_)
RStrip(s) == IF s # "" /\ IsSpace(Chr(s, Len(s))) THEN RStrip(SubSeq(s, 1, Len(s) - 1)) ELSE s

\* _md_escape: (text or "").replace("\n", " ").replace("|", "\\|").strip()
_md_escape(text) == LStrip(RStrip(Replace(Replace(text, "\n", " "), "|", "\\|")))

RECURSIVE JoinLines(_)
JoinLines(lines) ==
    IF lines = <<>> THEN ""
    ELSE IF Len(lines) = 1 THEN lines[1]
    ELSE lines[1] \o "\n" \o JoinLines(Tail(lines))

TableHeader ==
    "| customer_id | customer_name | email | ticket_id | priority | status | issue |\n|---:|---|---|---:|---|---|---|"

TableRow(r) ==
    "| " \o NatToStr(r.customer_id) \o " | " \o _md_escape(r.customer_name)
         \o " | " \o _md_escape(r.email) \o " | " \o NatToStr(r.ticket_id)
         \o " | " \o _md_escape(r.priority) \o " | " \o _md_escape(r.status)
         \o " | " \o _md_escape(r.issue) \o " |"

_make_md_table(rows) ==
    IF rows = <<>>
    THEN TableHeader \o "\n| (none) | (none) | (none) | (none) | (none) | (none) | No open tickets found |"
    ELSE JoinLines(<<TableHeader>> \o [i \in 1..Len(rows) |-> TableRow(rows[i])])

\* priority_rank.get(str(r.get("priority", "")).lower(), 9)
PriorityRank(p) ==
    LET q == Lower(p) IN
    IF q = "high" THEN 0 ELSE IF q = "medium" THEN 1 ELSE IF q = "low" THEN 2 ELSE 9

\* the sort key (rank, customer id), compared as Python compares tuples
KeyLess(a, b) ==
    \/ PriorityRank(a.priority) < PriorityRank(b.priority)
    \/ (PriorityRank(a.priority) = PriorityRank(b.priority) /\ a.customer_id < b.customer_id)

\* list.sort is stable: a row goes behind every row whose key is not greater
RECURSIVE InsertRow(_, _)
InsertRow(sorted, r) ==
    IF sorted = <<>> THEN <<r>>
    ELSE IF KeyLess(r, sorted[1]) THEN <<r>> \o sorted
    ELSE <<sorted[1]>> \o InsertRow(Tail(sorted), r)

\* Mutant: the rows stay in the order they were collected in.
SortRowsNone(rows) == rows

RECURSIVE SortRows(_)
SortRows(rows) ==
    IF rows = <<>> THEN <<>>
    ELSE InsertRow(SortRows(SubSeq(rows, 1, Len(rows) - 1)), rows[Len(rows)])

\* Customer and ticket records the data agent may report.
CustomerPool ==
    {[id |-> 5, name |-> "Ann", email |-> "ann@x.io"],
     [id |-> 7, name |-> "Bo|b", email |-> "bob@x.io"]}

RECURSIVE SeqsOfLen(_, _)
SeqsOfLen(S, n) ==
    IF n = 0 THEN {<<>>}
    ELSE {Append(q, x) : q \in SeqsOfLen(S, n - 1), x \in S}

CustomerLists == UNION {SeqsOfLen(CustomerPool, n) : n \in 0..MaxCustomers}

TicketLists ==
    {<<[id |-> 9, status |-> "open", priority |-> "high", issue |-> "late delivery"]>>,
     <<[id |-> 3, status |-> "closed", priority |-> "low", issue |-> "refund"],
       [id |-> 4, status |-> "open", priority |-> "Low", issue |-> "bad\nitem"],
       [id |-> 2, status |-> "open", priority |-> "urgent", issue |-> "outage"]>>}

\* A reply as call_agent sees it: a2a_send returned and extract_text_from_a2a
\* gave `text` (json is what json.loads makes of that text, kind "none" when
\* it is not JSON), or an exception of type etype with message emsg was raised.
OkReply(text, jkind, customers, tickets) ==
    [ok |-> TRUE, text |-> text,
     json |-> [kind |-> jkind, customers |-> customers, tickets |-> tickets],
     etype |-> "", emsg |-> ""]

FailReply(ty, ms) ==
    [ok |-> FALSE, text |-> "",
     json |-> [kind |-> "none", customers |-> <<>>, tickets |-> <<>>],
     etype |-> ty, emsg |-> ms]

Failures ==
    {FailReply("ConnectError", "All connection attempts failed"),
     FailReply("ReadTimeout", "")}

\* r.raise_for_status() on an error status, and extract_text_from_a2a on an
\* envelope whose "result" is not an object
EnvelopeFailures ==
    {FailReply("HTTPStatusError", "Server error '500 Internal Server Error' for url 'http://127.0.0.1:8001/'"),
     FailReply("AttributeError", "'str' object has no attribute 'get'")}

RECURSIVE IdsText(_)
IdsText(cs) ==
    IF cs = <<>> THEN ""
    ELSE NatToStr(cs[1].id) \o (IF Len(cs) > 1 THEN ", " ELSE "") \o IdsText(Tail(cs))

PlainReplies ==
    {OkReply("Data Agent: tell me what you need", "none", <<>>, <<>>)} \cup Failures

\* JSON that is truthy and not an object: the handler's .get raises on it
ArrayReply == OkReply("[5]", "array", <<>>, <<>>)

ListReplies ==
    {OkReply("{\"customers\": [" \o IdsText(cs) \o "]}", "object", cs, <<>>) :
        cs \in CustomerLists} \cup PlainReplies \cup {ArrayReply}

HistReplies ==
    {OkReply("{\"tickets\": [" \o IdsText(ts) \o "]}", "object", <<>>, ts) :
        ts \in TicketLists} \cup {FailReply("ConnectError", "All connection attempts failed"), ArrayReply}

TextReplies ==
    {OkReply("{\"found\": true}", "object", <<>>, <<>>),
     OkReply("Support Agent (triage)\nTell me what happened", "none", <<>>, <<>>)}
        \cup Failures \cup EnvelopeFailures

\* Mutant: the failure text is the bare exception message.
ResultTextBare(label, r) == IF r.ok THEN r.text ELSE r.emsg

\* call_agent's returned text: the reply text, or the failure text
ResultText(label, r) ==
    IF r.ok THEN r.text
    ELSE label \o " call failed: " \o r.etype \o ": " \o r.emsg

\* Mutant: a failed call leaves no trace in the log.
LogEntryOkOnly(label, msg, r) ==
    IF r.ok THEN <<"[router] " \o label \o " OK: " \o Slice(_md_escape(msg), 1, 90)>>
    ELSE <<>>

\* call_agent's log_short.append(...), on either path
LogEntry(label, msg, r) ==
    IF r.ok THEN <<"[router] " \o label \o " OK: " \o Slice(_md_escape(msg), 1, 90)>>
    ELSE <<"[router] " \o label \o " FAIL: " \o r.etype \o ": " \o r.emsg>>

(***************************************************************************)
(* The backend behind the data agent: the tool server's tables, its tools, *)
(* and the data agent's handle_query.  The tables' schema is not part of   *)
(* the sources; rows carry the columns the sources name (updated_at is NULL *)
(* until an update, <<>> here).  Rows come back in the order of their ids. *)
(***************************************************************************)
MaxDbRows == 2

ListLimit == 50

DbCustomerPool ==
    {[id |-> 5, name |-> "Ann", email |-> "ann@x.io", status |-> "active",
      updated_at |-> <<>>],
     [id |-> 7, name |-> "Bo|b", email |-> "bob@x.io", status |-> "active",
      updated_at |-> <<>>],
     [id |-> 8, name |-> "Cy", email |-> "cy@x.io", status |-> "disabled",
      updated_at |-> <<>>]}

DbTicketPool ==
    {[id |-> 9, customer_id |-> 5, issue |-> "late delivery", status |-> "open",
      priority |-> "high", created_at |-> Now],
     [id |-> 3, customer_id |-> 5, issue |-> "refund", status |-> "closed",
      priority |-> "low", created_at |-> Now],
     [id |-> 4, customer_id |-> 7, issue |-> "bad\nitem", status |-> "open",
      priority |-> "Low", created_at |-> Now],
     [id |-> 6, customer_id |-> 8, issue |-> "no \"login\"", status |-> "open",
      priority |-> "medium", created_at |-> Now]}

Databases ==
    {[on |-> TRUE, customers |-> cs, tickets |-> ts] :
        cs \in {c \in SUBSET DbCustomerPool : Cardinality(c) <= MaxDbRows},
        ts \in {t \in SUBSET DbTicketPool : Cardinality(t) <= MaxDbRows}}

\* fetchall(): the rows of a result set, by id
RECURSIVE RowsById(_)
RowsById(S) ==
    IF S = {} THEN <<>>
    ELSE LET m == CHOOSE x \in S : \A y \in S : x.id <= y.id IN
         <<m>> \o RowsById(S \ {m})

\* Mutant: the status column is not looked at.
list_customers_all(db, status, limit) ==
    LET rows == RowsById(db.customers) IN
    SubSeq(rows, 1, IF Len(rows) > limit THEN limit ELSE Len(rows))

\* SELECT * FROM customers WHERE status=? LIMIT ?
list_customers(db, status, limit) ==
    LET rows == RowsById({c \in db.customers : c.status = status}) IN
    SubSeq(rows, 1, IF Len(rows) > limit THEN limit ELSE Len(rows))

\* SELECT * FROM tickets WHERE customer_id=?
get_customer_history(db, customer_id) ==
    RowsById({t \in db.tickets : t.customer_id = customer_id})

\* SELECT * FROM customers WHERE id=? ... fetchone(): <<row>> or <<>>
get_customer(db, customer_id) == RowsById({c \in db.customers : c.id = customer_id})

\* UPDATE customers SET email=?, updated_at=? WHERE id=?: the tables afterwards
update_customer(db, customer_id, email) ==
    [db EXCEPT !.customers =
        {IF c.id = customer_id THEN [c EXCEPT !.email = email, !.updated_at = <<Now>>]
         ELSE c : c \in db.customers}]

\* the one element of a singleton; {e(x) : x \in {v}} computes v once
The(S) == CHOOSE x \in S : TRUE

\* json.dumps / json.loads of a long text, computed by halves.
RECURSIVE JsonEscapeFrom(_, _, _)
JsonEscapeFrom(s, a, b) ==
    IF a > b THEN ""
    ELSE IF b - a < 8 THEN JsonEscape(SubSeq(s, a, b), 1)
    ELSE LET m == (a + b) \div 2 IN JsonEscapeFrom(s, a, m) \o JsonEscapeFrom(s, m + 1, b)

\* the backslashes that end at w[m], counted from w[a]
RECURSIVE BackslashesAt(_, _, _)
BackslashesAt(w, a, m) ==
    IF m < a \/ Chr(w, m) # "\\" THEN 0 ELSE 1 + BackslashesAt(w, a, m - 1)

RECURSIVE JsonUnescapeFrom(_, _, _)
JsonUnescapeFrom(w, a, b) ==
    IF a > b THEN ""
    ELSE IF b - a < 8 THEN JsonUnescape(SubSeq(w, a, b), 1)
    ELSE LET h == (a + b) \div 2
             m == IF BackslashesAt(w, a, h) % 2 = 1 THEN h + 1 ELSE h IN
         JsonUnescapeFrom(w, a, m) \o JsonUnescapeFrom(w, m + 1, b)

\* A text in a JSON message: json.dumps on one side, json.loads on the other
\* (the tool server's send and the bridge's readline; JSONResponse and
\* r.json()).
Wire(s) ==
    The({JsonUnescapeFrom(w, 2, Len(w) - 1) :
            w \in {The({"\"" \o JsonEscapeFrom(u, 1, Len(u)) \o "\"" : u \in {s}})}})

\* json.dumps(..., indent=2)
RECURSIVE Pad(_)
Pad(n) == IF n = 0 THEN "" ELSE "  " \o Pad(n - 1)

RECURSIVE JoinWith(_, _)
JoinWith(items, sep) ==
    IF items = <<>> THEN ""
    ELSE IF Len(items) = 1 THEN items[1]
    ELSE items[1] \o sep \o JoinWith(Tail(items), sep)

\* a dict of <<key, rendered value>> pairs at nesting level lvl
DumpsObject(pairs, lvl) ==
    IF pairs = <<>> THEN "{}"
    ELSE "{\n"
         \o JoinWith([i \in 1..Len(pairs) |->
                        Pad(lvl + 1) \o JsonDumpsStr(pairs[i][1]) \o ": " \o pairs[i][2]],
                     ",\n")
         \o "\n" \o Pad(lvl) \o "}"

\* a list of rendered items at nesting level lvl
DumpsList(items, lvl) ==
    IF items = <<>> THEN "[]"
    ELSE "[\n"
         \o JoinWith([i \in 1..Len(items) |-> Pad(lvl + 1) \o items[i]], ",\n")
         \o "\n" \o Pad(lvl) \o "]"

DumpsCustomer(c, lvl) ==
    DumpsObject(<<<<"id", NatToStr(c.id)>>, <<"name", JsonDumpsStr(c.name)>>,
                  <<"email", JsonDumpsStr(c.email)>>,
                  <<"status", JsonDumpsStr(c.status)>>,
                  <<"updated_at", IF c.updated_at = <<>> THEN "null"
                                  ELSE JsonDumpsStr(c.updated_at[1])>>>>, lvl)

DumpsTicket(t, lvl) ==
    DumpsObject(<<<<"id", NatToStr(t.id)>>, <<"customer_id", NatToStr(t.customer_id)>>,
                  <<"issue", JsonDumpsStr(t.issue)>>, <<"status", JsonDumpsStr(t.status)>>,
                  <<"priority", JsonDumpsStr(t.priority)>>,
                  <<"created_at", JsonDumpsStr(t.created_at)>>>>, lvl)

\* json.loads of the rendered rows, as far as the router reads them
LoadsCustomer(c) ==
    [id |-> StrToNat(NatToStr(c.id)), name |-> JsonLoadsStr(JsonDumpsStr(c.name)),
     email |-> JsonLoadsStr(JsonDumpsStr(c.email))]

LoadsTicket(t) ==
    [id |-> StrToNat(NatToStr(t.id)), status |-> JsonLoadsStr(JsonDumpsStr(t.status)),
     priority |-> JsonLoadsStr(JsonDumpsStr(t.priority)),
     issue |-> JsonLoadsStr(JsonDumpsStr(t.issue))]

\* a row on its way from the tool server's send() to the bridge's json.loads
WireCustomer(c) ==
    [c EXCEPT !.name = Wire(@), !.email = Wire(@), !.status = Wire(@),
              !.updated_at = IF @ = <<>> THEN @ ELSE <<Wire(@[1])>>]

WireTicket(t) ==
    [t EXCEPT !.issue = Wire(@), !.status = Wire(@), !.priority = Wire(@),
              !.created_at = Wire(@)]

WireRows(rows, W(_)) == The({[i \in 1..Len(got) |-> W(got[i])] : got \in {rows}})

\* [\w\.\+\-] and [\w\.\-]
IsLocalCh(ch) == IsWordCh(ch) \/ ch \in {".", "+", "-"}
IsDomainCh(ch) == IsWordCh(ch) \/ ch \in {".", "-"}

\* ([\w\.\+\-]+@[\w\.\-]+\.\w+) around the "@" at position p: both runs
\* are greedy, the domain gives back to its last "." that a \w follows
EmailAt(s, p) ==
    LET stops == {k \in 1..(p - 1) : ~IsLocalCh(At(s, k))}
        a == IF stops = {} THEN 1 ELSE (CHOOSE k \in stops : \A o \in stops : o <= k) + 1
        ends == {k \in (p + 1)..(Len(s) + 1) : ~IsDomainCh(At(s, k))}
        e == (CHOOSE k \in ends : \A o \in ends : k <= o) - 1
        dots == {j \in (p + 2)..(e - 1) : At(s, j) = "." /\ IsWordCh(At(s, j + 1))}
        j == CHOOSE k \in dots : \A o \in dots : o <= k
        tails == {k \in (j + 1)..(Len(s) + 1) : ~IsWordCh(At(s, k))}
        f == (CHOOSE k \in tails : \A o \in tails : k <= o) - 1 IN
    IF At(s, p) = "@" /\ a <= p - 1 /\ dots # {} THEN <<SubSeq(s, a, f)>> ELSE <<>>

\* extract_email_update: <<email>> of the leftmost match, <<>> for None
extract_email_update(text) ==
    LET hits == {p \in 1..Len(text) : EmailAt(text, p) # <<>>} IN
    IF hits = {} THEN <<>> ELSE EmailAt(text, CHOOSE p \in hits : \A o \in hits : p <= o)

\* the data agent's extract_customer_id: the router's two patterns
DataCustomerId(text) ==
    IF FirstCustomer(text) # <<>> THEN FirstCustomer(text) ELSE FirstId(text)

DataHelpText ==
    "Data Agent: tell me what you need, e.g.:\n"
        \o "- 'Get customer information for ID 5'\n"
        \o "- 'List active customers'\n"
        \o "- 'Update my email to new@email.com for customer ID 5'\n"
        \o "- 'Show ticket history for customer ID 5'"

\* str() of the update tool's {"updated": bool}
UpdatedRepr(db, c) ==
    "{'updated': " \o (IF get_customer(db, c) # <<>> THEN "True" ELSE "False") \o "}"

\* The branch handle_query takes for the stripped text t.
BranchOf(t, t_lower) ==
    IF IsSubstr("list", t_lower) /\ IsSubstr("customer", t_lower)
       /\ (IsSubstr("active", t_lower) \/ IsSubstr("disabled", t_lower))
    THEN IF IsSubstr("active", t_lower) THEN "list_active" ELSE "list_disabled"
    ELSE IF DataCustomerId(t) = <<>> THEN "help"
    ELSE IF (IsSubstr("update", t_lower) \/ IsSubstr("change", t_lower))
            /\ extract_email_update(t) # <<>>
    THEN "update"
    ELSE IF IsSubstr("history", t_lower)
            \/ (IsSubstr("ticket", t_lower) /\ IsSubstr("show", t_lower))
    THEN "history"
    ELSE "get"

QueryBranch(text) ==
    The({The({BranchOf(t, t_lower) : t_lower \in {Lower(t)}}) :
            t \in {LStrip(RStrip(text))}})

\* json.dumps(out.get("content", out), indent=2) of the three tools' results,
\* with what json.loads makes of it
CustomersReply(rows) ==
    OkReply(DumpsObject(<<<<"customers",
                            DumpsList([i \in 1..Len(rows) |-> DumpsCustomer(rows[i], 2)], 1)>>>>, 0),
            "object", [i \in 1..Len(rows) |-> LoadsCustomer(rows[i])], <<>>)

TicketsReply(rows) ==
    OkReply(DumpsObject(<<<<"tickets",
                            DumpsList([i \in 1..Len(rows) |-> DumpsTicket(rows[i], 2)], 1)>>>>, 0),
            "object", <<>>, [i \in 1..Len(rows) |-> LoadsTicket(rows[i])])

FoundReply(rows) ==
    OkReply(DumpsObject(<<<<"found", IF rows # <<>> THEN "true" ELSE "false">>,
                          <<"customer", IF rows # <<>> THEN DumpsCustomer(rows[1], 1)
                                        ELSE "null">>>>, 0),
            "object", <<>>, <<>>)

\* handle_query past the choice of its branch
QueryAnswer(t, br, db) ==
    IF br = "list_active"
    THEN The({CustomersReply(rows) :
                rows \in {WireRows(list_customers(db, "active", ListLimit), WireCustomer)}})
    ELSE IF br = "list_disabled"
    THEN The({CustomersReply(rows) :
                rows \in {WireRows(list_customers(db, "disabled", ListLimit), WireCustomer)}})
    ELSE IF br = "help" THEN OkReply(DataHelpText, "none", <<>>, <<>>)
    ELSE IF br = "update"
    THEN OkReply("Updated customer " \o NatToStr(DataCustomerId(t)[1]) \o ": "
                    \o UpdatedRepr(db, DataCustomerId(t)[1]),
                 "none", <<>>, <<>>)
    ELSE IF br = "history"
    THEN The({TicketsReply(rows) :
                rows \in {WireRows(get_customer_history(db, DataCustomerId(t)[1]), WireTicket)}})
    ELSE The({FoundReply(rows) :
                rows \in {WireRows(get_customer(db, DataCustomerId(t)[1]), WireCustomer)}})

\* handle_query's returned text and what json.loads makes of it
handle_query(text, db) ==
    The({The({QueryAnswer(t, br, db) : br \in {QueryBranch(t)}}) :
            t \in {LStrip(RStrip(text))}})

\* the tables after handle_query has run
TablesAfter(text, db) ==
    The({IF QueryBranch(t) = "update"
         THEN update_customer(db, DataCustomerId(t)[1], extract_email_update(t)[1])
         ELSE db : t \in {LStrip(RStrip(text))}})

\* The data agent's rpc_root as a2a_send and extract_text_from_a2a see it:
\* the message text and the reply text each cross one JSON envelope, and the
\* reply text is stripped.
DataAgent(msg, db) ==
    The({The({[r EXCEPT !.text = LStrip(RStrip(w))] : w \in {Wire(r.text)}}) :
            r \in {The({handle_query(t, db) : t \in {Wire(msg)}})}})

\* The replies the DATA call in flight can get: with a backend, the data
\* agent's answer; without one, any of the replies in S.
DataReplies(S) == IF backend.on THEN {DataAgent(pend[1].msg, backend)} ELSE S

\* The tables after the DATA call in flight.
BackendAfter ==
    IF backend.on THEN The({TablesAfter(t, backend) : t \in {Wire(pend[1].msg)}})
    ELSE backend

\* frame of a step that calls the data agent
RData == UNCHANGED <<bvars, evars, svars, cvars, pvars>>

(***************************************************************************)
(* handle_router.  A step runs from one await to the next: a reply arrives *)
(* (call_agent logs it), the handler goes on to issue the next call or to  *)
(* return.                                                                 *)
(***************************************************************************)
ROnly == UNCHANGED <<bvars, evars, backend, svars, cvars, pvars>>

Call(label, msg) == [label |-> label, msg |-> msg]

RouterLogHeader ==
    <<"[router] time=" \o Now,
      "[router] DATA=" \o DATA_URL \o RPC_PATH \o " SUPPORT=" \o SUPPORT_URL \o RPC_PATH>>

\* Mutant: the default branch picks the other agent.
ScenarioDefaultSwapped(i) ==
    IF i.list_active_open THEN "fanout"
    ELSE IF i.cancel /\ i.billing THEN "cancel_billing"
    ELSE IF i.has_customer_id /\ i.account_help THEN "account_help"
    ELSE IF i.has_customer_id THEN "default_support"
    ELSE "default_data"

\* Mutant: the account-help scenario is tested before cancel+billing.
ScenarioAccountFirst(i) ==
    IF i.list_active_open THEN "fanout"
    ELSE IF i.has_customer_id /\ i.account_help THEN "account_help"
    ELSE IF i.cancel /\ i.billing THEN "cancel_billing"
    ELSE IF i.has_customer_id THEN "default_data"
    ELSE "default_support"

\* The if-chain of handle_router: Scenario 3, Scenario 2, Scenario 1, default.
Scenario(i) ==
    IF i.list_active_open THEN "fanout"
    ELSE IF i.cancel /\ i.billing THEN "cancel_billing"
    ELSE IF i.has_customer_id /\ i.account_help THEN "account_help"
    ELSE IF i.has_customer_id THEN "default_data"
    ELSE "default_support"

\* Mutant: the support agent is sent the question without the context.
SupportNoContextMsg(text, context) == "User asked: " \o text

GetInfoMsg(c) == "Get customer information for ID " \o NatToStr(c[1])
HistoryMsg(c_id) == "Show ticket history for customer ID " \o NatToStr(c_id)
SupportWithContextMsg(text, context) ==
    "User asked: " \o text \o "\n\nCustomer context:\n" \o context
        \o "\n\nPlease provide next steps."

LogLines(log) == [i \in 1..Len(log) |-> "- " \o log[i]]

FanoutHead == "Active customers with open tickets (coordinated via Router -> Data, multi-step):"
CancelBillingHead == "Coordinated answer (Router -> Support, with Data context if available):"
AccountHelpHead == "Coordinated answer (Router -> Data then Support):"
DefaultDataHead == "Routed to Data Agent:"
DefaultSupportHead == "Routed to Support Agent:"

FanoutAnswer(rows, log) ==
    <<FanoutHead, "", _make_md_table(rows), "", "A2A log (short):">> \o LogLines(log)

CancelBillingAnswer(d, sup, log) ==
    <<CancelBillingHead, "">>
        \o (IF d # "" THEN <<"Customer context (Data Agent):", d, "">> ELSE <<>>)
        \o <<"Support response:", sup, "", "A2A log (short):">> \o LogLines(log)

AccountHelpAnswer(d, sup, log) ==
    <<AccountHelpHead, "", "Customer context (Data Agent):", d, "",
      "Support response:", sup, "", "A2A log (short):">> \o LogLines(log)

DefaultAnswer(head, text, log) ==
    <<head, "", text, "", "A2A log (short):">> \o LogLines(log)

\* customers_by_id.get(c_id, {}): the last customer stored under the id
CustomerById(cs, c_id) ==
    LET idx == {i \in 1..Len(cs) : cs[i].id = c_id} IN
    IF idx = {} THEN [id |-> c_id, name |-> "", email |-> ""]
    ELSE cs[CHOOSE i \in idx : \A j \in idx : j <= i]

\* Mutant: no ticket is filtered out.
IsOpenAny(t) == TRUE

\* t.get("status") == "open"
IsOpen(t) == t.status = "open"

\* the rows appended for one customer's history reply
RowsOf(c_id, cs, tickets) ==
    LET open == SelectSeq(tickets, IsOpen)
        cust == CustomerById(cs, c_id) IN
    [i \in 1..Len(open) |->
        [customer_id |-> c_id, customer_name |-> cust.name, email |-> cust.email,
         ticket_id |-> open[i].id, priority |-> open[i].priority,
         status |-> open[i].status, issue |-> open[i].issue]]

\* _safe_json_loads(text) of a call's returned text, as far as it is used
ParsedCustomers(r) == IF r.ok /\ r.json.kind = "object" THEN r.json.customers ELSE <<>>
ParsedTickets(r) == IF r.ok /\ r.json.kind = "object" THEN r.json.tickets ELSE <<>>

\* Mutant: the call goes out next to the one still awaited.
IssueBeside(call) ==
    /\ pend' = Append(pend, call)
    /\ issued' = Append(issued, call)

\* await call_agent(label, ...): the call goes out
Issue(call) ==
    /\ pend' = <<call>>
    /\ issued' = Append(issued, call)

\* call_agent comes back with reply r: one line is appended to log_short
Logged(r) == log_short \o LogEntry(pend[1].label, pend[1].msg, r)

\* Mutant: a failed reply is as fatal as an unusable one.
UnusableOrFailed(r) == r = ArrayReply \/ ~r.ok

\* the parsed reply is truthy and has no .get: the handler raises on it
Unusable(r) == r = ArrayReply

\* call_agent's return value
CallResult(label, r) == [ok |-> r.ok, text |-> ResultText(label, r)]

\* the awaited call came back with r
Came(r) ==
    /\ replies' = Append(replies, r)
    /\ results' = Append(results, CallResult(pend[1].label, r))

\* return "\n".join(lines)
Return(lines) ==
    /\ final' = lines
    /\ rpc' = "done"
    /\ pend' = <<>>
    /\ UNCHANGED issued

\* an exception leaves handle_router: nothing is returned
Raise ==
    /\ rpc' = "raised"
    /\ pend' = <<>>
    /\ UNCHANGED <<issued, final>>

RInit == rpc = "recv" /\ rtext \in Texts /\ RBlank

\* handle_router from its entry to the first await.
HandleRouter ==
    /\ rpc = "recv"
    /\ LET i == detect_intent(rtext)
           c == extract_customer_id(rtext)
           sc == Scenario(i) IN
       /\ intent' = i
       /\ cid' = c
       /\ log_short' = RouterLogHeader
       /\ IF sc = "fanout"
          THEN Issue(Call("DATA", "List active customers")) /\ rpc' = "list"
          ELSE IF sc = "cancel_billing"
          THEN Issue(Call("SUPPORT", rtext)) /\ rpc' = "s2_support"
          ELSE IF sc = "account_help"
          THEN Issue(Call("DATA", GetInfoMsg(c))) /\ rpc' = "s1_data"
          ELSE IF sc = "default_data"
          THEN Issue(Call("DATA", rtext)) /\ rpc' = "def_data"
          ELSE Issue(Call("SUPPORT", rtext)) /\ rpc' = "def_support"
    /\ UNCHANGED <<rtext, active_ids, customers_by_id, ri, open_rows, data_text,
                   support_text, final, replies, results>>
    /\ ROnly

\* Mutant: every listed id is kept.
CappedNot(ids) == ids

\* active_ids[:15]
Capped(ids) == SubSeq(ids, 1, IF Len(ids) > FanoutCap THEN FanoutCap ELSE Len(ids))

\* Scenario 3: the reply to "List active customers".
ListDone ==
    /\ rpc = "list"
    /\ \E r \in DataReplies(ListReplies) :
        LET cs == ParsedCustomers(r)
            ids == [i \in 1..Len(cs) |-> cs[i].id]
            capped == Capped(ids) IN
        /\ Came(r)
        /\ log_short' = Logged(r)
        /\ customers_by_id' = cs
        /\ active_ids' = capped
        /\ IF Unusable(r)
           THEN Raise /\ UNCHANGED ri
           ELSE IF capped # <<>>
           THEN /\ Issue(Call("DATA", HistoryMsg(capped[1])))
                /\ ri' = 1
                /\ rpc' = "hist"
                /\ UNCHANGED final
           ELSE /\ Return(FanoutAnswer(<<>>, Logged(r)))
                /\ UNCHANGED ri
    /\ UNCHANGED <<rtext, intent, cid, open_rows, data_text, support_text>>
    /\ backend' = BackendAfter
    /\ RData

\* Scenario 3: the reply to one customer's ticket-history call.
HistDone ==
    /\ rpc = "hist"
    /\ \E r \in DataReplies(HistReplies) :
        LET rows == open_rows \o RowsOf(active_ids[ri], customers_by_id, ParsedTickets(r)) IN
        /\ Came(r)
        /\ log_short' = Logged(r)
        /\ IF Unusable(r)
           THEN Raise /\ UNCHANGED <<ri, open_rows>>
           ELSE IF ri < Len(active_ids)
           THEN /\ Issue(Call("DATA", HistoryMsg(active_ids[ri + 1])))
                /\ ri' = ri + 1
                /\ open_rows' = rows
                /\ UNCHANGED <<rpc, final>>
           ELSE /\ open_rows' = SortRows(rows)
                /\ Return(FanoutAnswer(SortRows(rows), Logged(r)))
                /\ UNCHANGED ri
    /\ UNCHANGED <<rtext, intent, cid, active_ids, customers_by_id, data_text,
                   support_text>>
    /\ backend' = BackendAfter
    /\ RData

\* Scenario 2: the support agent's reply; the data call follows if an id is known.
CancelSupportDone ==
    /\ rpc = "s2_support"
    /\ \E r \in TextReplies :
        /\ Came(r)
        /\ log_short' = Logged(r)
        /\ support_text' = ResultText("SUPPORT", r)
        /\ IF cid # <<>>
           THEN /\ Issue(Call("DATA", GetInfoMsg(cid)))
                /\ rpc' = "s2_data"
                /\ UNCHANGED final
           ELSE Return(CancelBillingAnswer("", ResultText("SUPPORT", r), Logged(r)))
    /\ UNCHANGED <<rtext, intent, cid, active_ids, customers_by_id, ri, open_rows,
                   data_text>>
    /\ ROnly

\* Scenario 2: the data agent's reply.
CancelDataDone ==
    /\ rpc = "s2_data"
    /\ \E r \in DataReplies(TextReplies) :
        /\ Came(r)
        /\ log_short' = Logged(r)
        /\ data_text' = ResultText("DATA", r)
        /\ Return(CancelBillingAnswer(ResultText("DATA", r), support_text, Logged(r)))
    /\ UNCHANGED <<rtext, intent, cid, active_ids, customers_by_id, ri, open_rows,
                   support_text>>
    /\ backend' = BackendAfter
    /\ RData

\* Scenario 1: the data agent's reply; the support call follows.
AccountDataDone ==
    /\ rpc = "s1_data"
    /\ \E r \in DataReplies(TextReplies) :
        /\ Came(r)
        /\ log_short' = Logged(r)
        /\ data_text' = ResultText("DATA", r)
        /\ Issue(Call("SUPPORT", SupportWithContextMsg(rtext, ResultText("DATA", r))))
        /\ rpc' = "s1_support"
    /\ UNCHANGED <<rtext, intent, cid, active_ids, customers_by_id, ri, open_rows,
                   support_text, final>>
    /\ backend' = BackendAfter
    /\ RData

\* Scenario 1: the support agent's reply.
AccountSupportDone ==
    /\ rpc = "s1_support"
    /\ \E r \in TextReplies :
        /\ Came(r)
        /\ log_short' = Logged(r)
        /\ support_text' = ResultText("SUPPORT", r)
        /\ Return(AccountHelpAnswer(data_text, ResultText("SUPPORT", r), Logged(r)))
    /\ UNCHANGED <<rtext, intent, cid, active_ids, customers_by_id, ri, open_rows,
                   data_text>>
    /\ ROnly

\* Default routing with a customer id: the data agent's reply.
DefaultDataDone ==
    /\ rpc = "def_data"
    /\ \E r \in DataReplies(TextReplies) :
        /\ Came(r)
        /\ log_short' = Logged(r)
        /\ data_text' = ResultText("DATA", r)
        /\ Return(DefaultAnswer(DefaultDataHead, ResultText("DATA", r), Logged(r)))
    /\ UNCHANGED <<rtext, intent, cid, active_ids, customers_by_id, ri, open_rows,
                   support_text>>
    /\ backend' = BackendAfter
    /\ RData

\* Default routing without a customer id: the support agent's reply.
DefaultSupportDone ==
    /\ rpc = "def_support"
    /\ \E r \in TextReplies :
        /\ Came(r)
        /\ log_short' = Logged(r)
        /\ support_text' = ResultText("SUPPORT", r)
        /\ Return(DefaultAnswer(DefaultSupportHead, ResultText("SUPPORT", r), Logged(r)))
    /\ UNCHANGED <<rtext, intent, cid, active_ids, customers_by_id, ri, open_rows,
                   data_text>>
    /\ ROnly

RNext ==
    \/ HandleRouter
    \/ ListDone
    \/ HistDone
    \/ CancelSupportDone
    \/ CancelDataDone
    \/ AccountDataDone
    \/ AccountSupportDone
    \/ DefaultDataDone
    \/ DefaultSupportDone

InitRouter == RInit /\ BOff /\ EOff /\ RestOff

SpecRouter == InitRouter /\ [][RNext]_vars

(***************************************************************************)
(* Claims about handle_router.                                             *)
(***************************************************************************)
StartsWith(s, p) == Slice(s, 1, Len(p)) = p

\* k occurs in s with the case of letters ignored (k is in lower case)
ContainsNoCase(k, s) ==
    \E i \in 1..Len(s) : \A j \in 1..Len(k) : LowerCh(At(s, i + j - 1)) = Chr(k, j)

Entered == rpc \notin {"off", "recv"}

\* the flags of the request text
Flags == intent

Heads ==
    {FanoutHead, CancelBillingHead, AccountHelpHead, DefaultDataHead, DefaultSupportHead}

\* the answer carries the heading h and no other plan's heading
OnlyHead(h) ==
    rpc = "done" =>
        /\ final[1] = h
        /\ \A i \in 2..Len(final) : final[i] \notin Heads

FanoutPlan ==
    /\ issued[1] = Call("DATA", "List active customers")
    /\ \A i \in 2..Len(issued) :
          /\ issued[i].label = "DATA"
          /\ StartsWith(issued[i].msg, "Show ticket history for customer ID ")
    /\ OnlyHead(FanoutHead)

CancelBillingPlan ==
    /\ issued[1] = Call("SUPPORT", rtext)
    /\ Len(issued) <= 2
    /\ Len(issued) = 2 => cid # <<>> /\ issued[2] = Call("DATA", GetInfoMsg(cid))
    /\ rpc = "done" => Len(issued) = (IF cid # <<>> THEN 2 ELSE 1)
    /\ OnlyHead(CancelBillingHead)

AccountHelpPlan ==
    /\ cid # <<>>
    /\ issued[1] = Call("DATA", GetInfoMsg(cid))
    /\ Len(issued) <= 2
    /\ Len(issued) = 2 =>
          /\ issued[2].label = "SUPPORT"
          /\ StartsWith(issued[2].msg, "User asked: " \o rtext)
    /\ rpc = "done" => Len(issued) = 2
    /\ OnlyHead(AccountHelpHead)

DefaultPlan ==
    /\ issued = <<Call(IF Flags.has_customer_id THEN "DATA" ELSE "SUPPORT", rtext)>>
    /\ OnlyHead(IF Flags.has_customer_id THEN DefaultDataHead ELSE DefaultSupportHead)

\* C8: for every intent vector handle_router executes exactly one call plan,
\* the first whose condition holds in the order fan-out report
\* (list_active_open), cancel+billing, account help with customer id,
\* default; a text setting cancel, billing, account_help and
\* has_customer_id runs cancel+billing, the support call first.
C8_FirstMatchingPlanRuns ==
    Entered =>
        IF Flags.list_active_open THEN FanoutPlan
        ELSE IF Flags.cancel /\ Flags.billing THEN CancelBillingPlan
        ELSE IF Flags.has_customer_id /\ Flags.account_help THEN AccountHelpPlan
        ELSE DefaultPlan

C8_Witness ==
    /\ rpc = "done"
    /\ ~Flags.list_active_open
    /\ Flags.cancel /\ Flags.billing /\ Flags.account_help /\ Flags.has_customer_id
    /\ issued[1].label = "SUPPORT"
    /\ Len(issued) = 2
    /\ final[1] = CancelBillingHead

\* C9: a text containing both "active customers" and "open tickets", case
\* ignored, selects the fan-out report whatever the other flags are: the
\* first downstream call is "List active customers" to the data agent and
\* the support agent is never called.
FanoutSelected ==
    /\ issued[1] = Call("DATA", "List active customers")
    /\ \A i \in 1..Len(issued) : issued[i].label # "SUPPORT"
    /\ rpc = "done" => final[1] = FanoutHead

C9_ActiveOpenSelectsFanout ==
    Entered =>
        \/ FanoutSelected
        \/ ~ContainsNoCase("active customers", rtext)
        \/ ~ContainsNoCase("open tickets", rtext)

C9_Witness ==
    /\ rpc = "done"
    /\ ContainsNoCase("active customers", rtext)
    /\ ContainsNoCase("open tickets", rtext)
    /\ ~IsSubstr("active customers", rtext)
    /\ intent.cancel /\ intent.billing /\ intent.account_help /\ intent.has_customer_id
    /\ Len(issued) >= 2
    /\ \A i \in 1..Len(issued) : issued[i].label = "DATA"

\* the lines after the last "A2A log (short):" line of an answer
LogPart(lines) ==
    LET marks == {i \in 1..Len(lines) : lines[i] = "A2A log (short):"} IN
    IF marks = {} THEN <<>>
    ELSE SubSeq(lines, (CHOOSE i \in marks : \A j \in marks : j <= i) + 1, Len(lines))

IsCallEntry(line) ==
    \E label \in {"DATA", "SUPPORT"} : \E o \in {" OK: ", " FAIL: "} :
        StartsWith(line, "- [router] " \o label \o o)

CallEntries(lines) == SelectSeq(lines, IsCallEntry)

\* what the entry of a call that came back with r has to say
EntryFor(call, r, line) ==
    IF r.ok
    THEN line = "- [router] " \o call.label \o " OK: " \o Slice(_md_escape(call.msg), 1, 90)
    ELSE StartsWith(line, "- [router] " \o call.label \o " FAIL: " \o r.etype)

\* C10: for every request and branch the audit log returned with the answer
\* has exactly one call entry per downstream call issued, in the order the
\* calls were issued, whether a call succeeded or failed.
C10_OneLogEntryPerCallInOrder ==
    /\ Entered =>
          Len(CallEntries(LogLines(log_short))) = Len(issued) - Len(pend)
    /\ rpc = "done" =>
          LET es == CallEntries(LogPart(final)) IN
          /\ Len(es) = Len(issued)
          /\ Len(replies) = Len(issued)
          /\ \A i \in 1..Len(es) : EntryFor(issued[i], replies[i], es[i])

C10_Witness ==
    /\ rpc = "done"
    /\ Len(issued) >= 3
    /\ Len(CallEntries(LogPart(final))) = Len(issued)
    /\ \E i \in 1..Len(replies) : ~replies[i].ok
    /\ \E i \in 1..Len(replies) : replies[i].ok
    /\ ~replies[Len(replies)].ok

(***************************************************************************)
(* Claims about handle_router's failure handling and default routing.      *)
(***************************************************************************)
InCancelBilling == ~intent.list_active_open /\ intent.cancel /\ intent.billing

InAccountHelp ==
    /\ ~intent.list_active_open
    /\ ~(intent.cancel /\ intent.billing)
    /\ intent.has_customer_id /\ intent.account_help

InDefault ==
    /\ ~intent.list_active_open
    /\ ~(intent.cancel /\ intent.billing)
    /\ ~(intent.has_customer_id /\ intent.account_help)

HasLine(lines, l) == \E i \in 1..Len(lines) : lines[i] = l

\* the text a failed call to `label` is to be reported with
FailureText(label, r) == label \o " call failed: " \o r.etype \o ": " \o r.emsg

\* C11: for every text and every downstream behaviour (any reply text, also
\* JSON that is not an object; HTTP error; timeout) handle_router returns a
\* final answer with the audit log; no exception escapes it.
C11_NoExceptionEscapes == rpc # "raised"

\* C12: a failed downstream call is caught inside call_agent and becomes a
\* failure result carrying the label, the exception type and its message,
\* with a FAIL audit entry; it never leaves the branch that issued the call.
C12_FailureCaughtInCallAgent ==
    /\ \A i \in 1..Len(replies) :
          ~replies[i].ok =>
              /\ results[i] = [ok |-> FALSE, text |-> FailureText(issued[i].label, replies[i])]
              /\ log_short[i + 2] =
                    "[router] " \o issued[i].label \o " FAIL: "
                        \o replies[i].etype \o ": " \o replies[i].emsg
    /\ rpc = "raised" => replies[Len(replies)].ok

C12_Witness ==
    /\ rpc = "done"
    /\ Len(replies) = 2
    /\ replies[1].etype = "HTTPStatusError"
    /\ replies[2].etype = "AttributeError"
    /\ HasLine(final, FailureText("SUPPORT", replies[1]))
    /\ HasLine(final, FailureText("DATA", replies[2]))

\* C13: in the cancel+billing branch with a customer id, a failed data call
\* leaves the answer without a customer-context section and with the
\* support reply.
C13_FailedDataOmitsContext ==
    (rpc = "done" /\ InCancelBilling /\ cid # <<>> /\ ~replies[2].ok) =>
        /\ ~HasLine(final, "Customer context (Data Agent):")
        /\ HasLine(final, results[1].text)

\* C14: in the account-help branch the support call is always issued, after
\* the data call has completed, also when the data call failed; then the
\* message to the support agent embeds the failure text as the customer
\* context and the answer has both the context and the support section.
C14_SupportCalledWithFailureContext ==
    (Entered /\ InAccountHelp) =>
        /\ Len(issued) = 2 <=> Len(replies) >= 1
        /\ Len(issued) = 2 => issued[2].label = "SUPPORT"
        /\ rpc = "done" => Len(replies) = 2
        /\ (Len(issued) = 2 /\ ~replies[1].ok) =>
              issued[2].msg =
                  "User asked: " \o rtext \o "\n\nCustomer context:\n"
                      \o FailureText("DATA", replies[1]) \o "\n\nPlease provide next steps."
        /\ (rpc = "done" /\ ~replies[1].ok) =>
              \E i \in 1..Len(final) : \E j \in 1..Len(final) :
                  /\ i + 1 < j /\ j < Len(final)
                  /\ final[i] = "Customer context (Data Agent):"
                  /\ final[i + 1] = FailureText("DATA", replies[1])
                  /\ final[j] = "Support response:"
                  /\ final[j + 1] = results[2].text

C14_Witness ==
    /\ rpc = "done"
    /\ InAccountHelp
    /\ ~replies[1].ok
    /\ replies[2].ok
    /\ HasLine(final, replies[2].text)

\* the open tickets a history reply reports (none when the call failed)
OpenTicketsOf(r) == IF r.ok THEN SelectSeq(r.json.tickets, IsOpen) ELSE <<>>

RECURSIVE OpenCount(_, _)
OpenCount(rs, k) ==
    IF k < 2 THEN 0 ELSE Len(OpenTicketsOf(rs[k])) + OpenCount(rs, k - 1)

\* C15: in the fan-out branch a failed ticket-history call contributes no
\* rows, the history calls of all remaining customers are still issued, and
\* the open tickets of the other customers are in the table.
C15_FailedHistoryIsSkipped ==
    /\ (intent.list_active_open /\ rpc = "raised") =>
          (replies[Len(replies)].ok /\ replies[Len(replies)].json.kind = "array")
    /\ (intent.list_active_open /\ rpc = "done") =>
          /\ Len(issued) = 1 + Len(active_ids)
          /\ \A i \in 1..Len(active_ids) : issued[i + 1].msg = HistoryMsg(active_ids[i])
          /\ Len(open_rows) = OpenCount(replies, Len(replies))
          /\ \A i \in 1..Len(active_ids) :
                \A k \in 1..Len(OpenTicketsOf(replies[i + 1])) :
                    \E n \in 1..Len(open_rows) :
                        /\ open_rows[n].customer_id = active_ids[i]
                        /\ open_rows[n].ticket_id = OpenTicketsOf(replies[i + 1])[k].id
          /\ final[3] = _make_md_table(open_rows)

C15_Witness ==
    /\ rpc = "done"
    /\ intent.list_active_open
    /\ active_ids = <<5, 7>>
    /\ ~replies[2].ok
    /\ replies[3].ok
    /\ Len(open_rows) = 1
    /\ open_rows[1].customer_id = 7

\* C16: when none of the fan-out, cancel+billing and account-help conditions
\* holds, exactly one downstream call is made, with the raw user text: to
\* the data agent if a customer id is present, else to the support agent;
\* the audit log then has exactly one call entry.
C16_DefaultMakesOneRawCall ==
    (Entered /\ InDefault) =>
        /\ issued = <<Call(IF cid # <<>> THEN "DATA" ELSE "SUPPORT", rtext)>>
        /\ rpc \in {"def_data", "def_support", "done"}
        /\ rpc = "done" => Len(CallEntries(LogPart(final))) = 1

C16_Witness ==
    /\ rpc = "done"
    /\ InDefault
    /\ cid # <<>>
    /\ intent.cancel
    /\ issued = <<Call("DATA", rtext)>>
    /\ Len(CallEntries(LogPart(final))) = 1

(***************************************************************************)
(* The RPC boundaries: the main loop of mcp_server.py, which reads one     *)
(* request per line of stdin, and rpc_root of an agent, which reads one    *)
(* request per POST body.  An input is described by what json.loads makes  *)
(* of it: nothing (invalid JSON), a value that is not an object, or an     *)
(* object with its id, method and tool name (<<>> stands for None).        *)
(***************************************************************************)
MaxInputs == 2

SOnly == UNCHANGED <<bvars, evars, rvars, backend, cvars, pvars>>

TOOLS ==
    {"get_customer", "list_customers", "update_customer", "create_ticket",
     "get_customer_history"}

\* an f-string's rendering of a value that may be None
PyStr(v) == IF v = <<>> THEN "None" ELSE v[1]

RequestIds == {<<"a1">>, <<"b2">>}

ServerMethods == {<<>>, <<"tools/list">>, <<"tools/call">>, <<"resources/list">>}

ToolNames == {<<>>, <<"get_customer">>, <<"get_customer_history">>, <<"drop_table">>}

AgentMethods == {<<>>, <<"message/send">>, <<"tools/call">>}

NotAnObject ==
    {[form |-> f, id |-> <<>>, method |-> <<>>, name |-> <<>>] : f \in {"invalid", "array"}}

ServerLines ==
    NotAnObject \cup
    {[form |-> "object", id |-> i, method |-> m, name |-> n] :
        i \in RequestIds, m \in ServerMethods, n \in ToolNames}

Bodies ==
    NotAnObject \cup
    {[form |-> "object", id |-> i, method |-> m, name |-> <<>>] :
        i \in RequestIds, m \in AgentMethods}

\* Mutant: any name is looked up and run.
InCatalogAny(name) == TRUE

\* name in TOOLS
InCatalog(name) == name # <<>> /\ name[1] \in TOOLS

\* send({"jsonrpc": "2.0", "id": req_id, "error": {"message": str(e)}})
ErrorLine(id, msg) == <<[id |-> id, kind |-> "error", message |-> msg]>>

\* send({"jsonrpc": "2.0", "id": req_id, "result": ...})
ResultLine(id) == <<[id |-> id, kind |-> "result", message |-> ""]>>

\* Mutant: tools/list lacks its `continue` and runs on into the final raise.
ServerAnswerRunsOn(l, boom) ==
    IF l.method = <<"tools/list">>
    THEN ResultLine(l.id) \o ErrorLine(l.id, "Unknown method: tools/list")
    ELSE IF l.method = <<"tools/call">> /\ InCatalog(l.name) /\ ~boom THEN ResultLine(l.id)
    ELSE ErrorLine(l.id, "Unknown")

\* what the loop body prints for a request object; boom: the tool raised
ServerAnswer(l, boom) ==
    IF l.method = <<"tools/list">> THEN ResultLine(l.id)
    ELSE IF l.method = <<"tools/call">>
    THEN IF ~InCatalog(l.name) THEN ErrorLine(l.id, "Unknown tool: " \o PyStr(l.name))
         ELSE IF boom THEN ErrorLine(l.id, "no such table: customers")
         ELSE ResultLine(l.id)
    ELSE ErrorLine(l.id, "Unknown method: " \o PyStr(l.method))

\* TOOLS[name](**args)
ServerExecutes(l) ==
    IF l.method = <<"tools/call">> /\ InCatalog(l.name) THEN l.name ELSE <<>>

\* One iteration of `for line in sys.stdin`.  json.loads(line) and the
\* req.get calls stand before the try: an exception there ends the process.
ServerLine ==
    /\ srv = "up"
    /\ Len(sin) + Len(hin) < MaxInputs
    /\ \E l \in ServerLines : \E boom \in BOOLEAN :
        /\ sin' = Append(sin, l)
        /\ IF l.form # "object"
           THEN /\ srv' = "crashed"
                /\ sout' = Append(sout, <<>>)
                /\ sran' = Append(sran, <<>>)
           ELSE /\ srv' = "up"
                /\ sout' = Append(sout, ServerAnswer(l, boom))
                /\ sran' = Append(sran, ServerExecutes(l))
    /\ UNCHANGED <<hin, hout, hran>>
    /\ SOnly

JsonRpcError(status, id, code, msg) ==
    [status |-> status, jsonrpc |-> TRUE, id |-> id, code |-> code, message |-> msg]

\* an exception left rpc_root: the framework answers 500 with a plain body
ServerError500 ==
    [status |-> 500, jsonrpc |-> FALSE, id |-> <<>>, code |-> 0,
     message |-> "Internal Server Error"]

JsonRpcResult(id) ==
    [status |-> 200, jsonrpc |-> TRUE, id |-> id, code |-> 0, message |-> ""]

\* rpc_root's response; boom: the handler raised
AgentAnswer(b, boom) ==
    IF b.form = "invalid" THEN JsonRpcError(400, <<>>, -32700, "Parse error")
    ELSE IF b.form = "array" THEN ServerError500
    ELSE IF b.method # <<"message/send">>
    THEN JsonRpcError(200, b.id, -32601, "Method not found")
    ELSE IF boom THEN ServerError500
    ELSE JsonRpcResult(b.id)

\* One POST to an agent's rpc_root.
AgentRequest ==
    /\ srv # "off"
    /\ Len(sin) + Len(hin) < MaxInputs
    /\ \E b \in Bodies : \E boom \in BOOLEAN :
        /\ hin' = Append(hin, b)
        /\ hout' = Append(hout, AgentAnswer(b, boom))
        /\ hran' = Append(hran, b.form = "object" /\ b.method = <<"message/send">>)
    /\ UNCHANGED <<srv, sin, sout, sran>>
    /\ SOnly

SNext ==
    \/ ServerLine
    \/ AgentRequest

SInit ==
    /\ srv = "up" /\ sin = <<>> /\ sout = <<>> /\ sran = <<>>
    /\ hin = <<>> /\ hout = <<>> /\ hran = <<>>

InitRpc == SInit /\ BOff /\ EOff /\ ROff /\ backend = NoBackend /\ COff /\ XOff /\ QOff

SpecRpc == InitRpc /\ [][SNext]_vars

\* C19: every input, also a line or body that is not valid JSON or is JSON
\* but not an object, is answered with a JSON-RPC error and serving goes
\* on: the tool server prints one error line and processes later lines,
\* the agents' endpoints answer with code -32700.
C19_BadInputAnsweredAndServing ==
    /\ srv # "crashed"
    /\ \A i \in 1..Len(sin) :
          sin[i].form # "object" => (sout[i] # <<>> /\ sout[i][1].kind = "error")
    /\ \A i \in 1..Len(hin) :
          hin[i].form # "object" => (hout[i].jsonrpc /\ hout[i].code = -32700)

\* the request names no tool of the catalog, or a method the server lacks
UnknownToolOrMethod(l) ==
    /\ l.form = "object"
    /\ \/ l.method = <<"tools/call">> /\ ~(l.name # <<>> /\ l.name[1] \in TOOLS)
       \/ l.method \notin {<<"tools/list">>, <<"tools/call">>}

\* C20: a tools/call naming a tool outside the five-tool catalog, or a
\* request with an unsupported method, executes no tool (and triggers no
\* downstream call on an agent endpoint) and is answered with an error
\* carrying the request's id and a message describing the unknown tool or
\* method (code -32601 on agent endpoints); the server stays available.
C20_UnknownToolOrMethodRejected ==
    /\ \A i \in 1..Len(sin) :
          UnknownToolOrMethod(sin[i]) =>
              /\ sran[i] = <<>>
              /\ sout[i] =
                    <<[id |-> sin[i].id, kind |-> "error",
                       message |-> IF sin[i].method = <<"tools/call">>
                                   THEN "Unknown tool: " \o PyStr(sin[i].name)
                                   ELSE "Unknown method: " \o PyStr(sin[i].method)]>>
              /\ i = Len(sin) => srv = "up"
    /\ \A i \in 1..Len(hin) :
          (hin[i].form = "object" /\ hin[i].method # <<"message/send">>) =>
              /\ ~hran[i]
              /\ hout[i] = [status |-> 200, jsonrpc |-> TRUE, id |-> hin[i].id,
                            code |-> -32601, message |-> "Method not found"]

C20_Witness ==
    /\ Len(sin) = 2
    /\ sin[1].method = <<"tools/call">> /\ sin[1].name = <<"drop_table">>
    /\ sout[1][1].message = "Unknown tool: drop_table"
    /\ sin[2].method = <<"tools/call">> /\ sin[2].name = <<"get_customer">>
    /\ sout[2][1].kind = "result"
    /\ sran = << <<>>, <<"get_customer">> >>

(***************************************************************************)
(* Several requests inside handle_router at once.  Each call of            *)
(* handle_router has its own locals; the requests interleave at the awaits *)
(* of call_agent.  Only what the log depends on is kept per request: the   *)
(* calls and their outcomes, not the table or the answer text.             *)
(***************************************************************************)
NumRequests == 2

Requests == 1..NumRequests

COnly == UNCHANGED <<bvars, evars, rvars, backend, svars, pvars>>

\* a text for each branch of handle_router
ConcTextSeq ==
    <<"Active Customers with OPEN tickets", "cancel billing for Customer ID: 12 account",
      "Help ID 5", "Help">>

ConcTexts == {ConcTextSeq[i] : i \in 1..Len(ConcTextSeq)}

ConcCustomers ==
    {cs \in CustomerLists : Len(cs) = 2 /\ cs[1].id = 5 /\ cs[2].id = 7}

ConcListReplies ==
    {r \in ListReplies :
        \/ r = ArrayReply
        \/ r = FailReply("ReadTimeout", "")
        \/ (r.ok /\ r.json.kind = "object" /\ r.json.customers \in ConcCustomers)}

ConcHistReplies ==
    {r \in HistReplies : ~r.ok \/ (r.json.kind = "object" /\ Len(r.json.tickets) = 1)}

ConcTextReplies ==
    {r \in TextReplies : r.json.kind = "none" /\ r.etype \in {"", "ReadTimeout"}}

ConcReplies(at) ==
    IF at = "list" THEN ConcListReplies
    ELSE IF at = "hist" THEN ConcHistReplies
    ELSE ConcTextReplies

\* Mutant: every request appends to one and the same list.
LogShared(q) == 1

\* log_short is a local of the call of handle_router that serves request q
LogOf(q) == q

\* the first call of each branch and the await it is made at
FirstCall(sc, text, c) ==
    IF sc = "fanout" THEN Call("DATA", "List active customers")
    ELSE IF sc = "cancel_billing" THEN Call("SUPPORT", text)
    ELSE IF sc = "account_help" THEN Call("DATA", GetInfoMsg(c))
    ELSE IF sc = "default_data" THEN Call("DATA", text)
    ELSE Call("SUPPORT", text)

FirstAwait(sc) ==
    IF sc = "fanout" THEN "list"
    ELSE IF sc = "cancel_billing" THEN "s2_support"
    ELSE IF sc = "account_help" THEN "s1_data"
    ELSE IF sc = "default_data" THEN "def_data"
    ELSE "def_support"

NewRequest(text) ==
    [pc |-> "recv", text |-> text, cid |-> <<>>, ids |-> <<>>, ri |-> 0,
     pend |-> <<>>, issued |-> <<>>, got |-> <<>>, ret |-> <<>>, mixed |-> FALSE]

ConcIssue(st, at, call) ==
    [st EXCEPT !.pc = at, !.pend = <<call>>, !.issued = Append(@, call)]

ConcEnd(st, how) == [st EXCEPT !.pc = how, !.pend = <<>>]

\* handle_router of one request from the reply r to its next await or its end
ConcAfter(st, r) ==
    IF st.pc = "list"
    THEN LET cs == ParsedCustomers(r)
             all == [i \in 1..Len(cs) |-> cs[i].id]
             ids == SubSeq(all, 1, IF Len(all) > FanoutCap THEN FanoutCap ELSE Len(all)) IN
         IF Unusable(r) THEN ConcEnd(st, "raised")
         ELSE IF ids = <<>> THEN ConcEnd(st, "done")
         ELSE ConcIssue([st EXCEPT !.ids = ids, !.ri = 1], "hist",
                        Call("DATA", HistoryMsg(ids[1])))
    ELSE IF st.pc = "hist"
    THEN IF Unusable(r) THEN ConcEnd(st, "raised")
         ELSE IF st.ri < Len(st.ids)
         THEN ConcIssue([st EXCEPT !.ri = st.ri + 1], "hist",
                        Call("DATA", HistoryMsg(st.ids[st.ri + 1])))
         ELSE ConcEnd(st, "done")
    ELSE IF st.pc = "s2_support" /\ st.cid # <<>>
    THEN ConcIssue(st, "s2_data", Call("DATA", GetInfoMsg(st.cid)))
    ELSE IF st.pc = "s1_data"
    THEN ConcIssue(st, "s1_support",
                   Call("SUPPORT", SupportWithContextMsg(st.text, ResultText("DATA", r))))
    ELSE ConcEnd(st, "done")

\* detect_intent and extract_customer_id, tabulated over the texts in use
IntentOf == [t \in ConcTexts |-> detect_intent(t)]
CustomerIdOf == [t \in ConcTexts |-> extract_customer_id(t)]

\* request q enters handle_router and runs to its first await
ConcStart(q) ==
    /\ creq[q].pc = "recv"
    /\ LET st == creq[q]
           c == CustomerIdOf[st.text]
           sc == Scenario(IntentOf[st.text]) IN
       /\ creq' = [creq EXCEPT ![q] =
                     ConcIssue([st EXCEPT !.cid = c], FirstAwait(sc), FirstCall(sc, st.text, c))]
       /\ clog' = [clog EXCEPT ![LogOf(q)] = RouterLogHeader]
    /\ COnly

\* the call request q awaits comes back; q runs to its next await or returns
ConcReply(q) ==
    /\ creq[q].pend # <<>>
    /\ \E r \in ConcReplies(creq[q].pc) :
        LET st == creq[q]
            log2 == clog[LogOf(q)] \o LogEntry(st.pend[1].label, st.pend[1].msg, r)
            others == \E o \in Requests : o # q /\ creq[o].pend # <<>>
            st2 == ConcAfter([st EXCEPT !.got = Append(@, r), !.mixed = @ \/ others], r) IN
        /\ clog' = [clog EXCEPT ![LogOf(q)] = log2]
        /\ creq' = [creq EXCEPT ![q] =
                      IF st2.pc = "done" THEN [st2 EXCEPT !.ret = LogLines(log2)] ELSE st2]
    /\ COnly

CNext == \E q \in Requests : ConcStart(q) \/ ConcReply(q)

\* The requests are interchangeable: their texts are taken in the order of
\* ConcTextSeq.
CInit ==
    /\ \E f \in [Requests -> 1..Len(ConcTextSeq)] :
          /\ \A q \in Requests : \A o \in Requests : q < o => f[q] <= f[o]
          /\ creq = [q \in Requests |-> NewRequest(ConcTextSeq[f[q]])]
    /\ clog = [q \in Requests |-> <<>>]

InitConc == CInit /\ BOff /\ EOff /\ ROff /\ backend = NoBackend /\ SOff /\ XOff /\ QOff

SpecConc == InitConc /\ [][CNext]_vars

\* C18: with several requests in handle_router at once, each returned log
\* has entries only for the calls made for its own request, in that
\* request's call order; no entry of one request appears in another's log.
C18_LogsAreSeparate ==
    \A q \in Requests :
        /\ creq[q].pc \notin {"recv", "done"} =>
              /\ Len(clog[q]) = 2 + Len(creq[q].got)
              /\ \A i \in 1..Len(creq[q].got) :
                    EntryFor(creq[q].issued[i], creq[q].got[i], "- " \o clog[q][i + 2])
        /\ creq[q].pc = "done" =>
              LET es == CallEntries(creq[q].ret) IN
              /\ Len(creq[q].ret) = 2 + Len(creq[q].issued)
              /\ Len(es) = Len(creq[q].issued)
              /\ \A i \in 1..Len(es) : EntryFor(creq[q].issued[i], creq[q].got[i], es[i])

C18_Witness ==
    /\ creq[1].pc = "done" /\ creq[2].pc = "done"
    /\ creq[1].mixed /\ creq[2].mixed
    /\ creq[1].text # creq[2].text
    /\ Len(creq[1].issued) >= 2 /\ Len(creq[2].issued) >= 2
    /\ \E i \in 1..Len(creq[1].got) : ~creq[1].got[i].ok

(***************************************************************************)
(* End to end: the router in front of the data agent and the tool server's *)
(* tables.  The support agent's replies stay unconstrained.                *)
(***************************************************************************)
ActiveOpenText == "Show me all active customers who have open tickets"

E2ETexts ==
    {ActiveOpenText, "cancel billing for customer ID 5", "Help ID 5", "Help", "ID 7",
     "update a@b.c ID 5", "list disabled customer ID 7"}

RInitE2E == rpc = "recv" /\ rtext \in E2ETexts /\ RBlank

InitE2E == RInitE2E /\ backend \in Databases /\ BOff /\ EOff /\ SOff /\ COff /\ XOff /\ QOff

SpecE2E == InitE2E /\ [][RNext]_vars

\* The backend holds active customer 5 and, of customer 5, the one open
\* ticket 9 (high, "late delivery"); no other customer is active.  Disabled
\* customers, closed tickets and other customers' tickets may be there too.
ClaimBackend ==
    /\ backend.on
    /\ {c.id : c \in {x \in backend.customers : x.status = "active"}} = {5}
    /\ \E t \in backend.tickets :
          /\ t.id = 9 /\ t.priority = "high" /\ t.issue = "late delivery"
          /\ {o \in backend.tickets : o.customer_id = 5 /\ o.status = "open"} = {t}

\* C17: end to end, the request "Show me all active customers who have open
\* tickets" over a backend holding active customer 5 and open high-priority
\* ticket 9 of customer 5 with issue "late delivery" is answered with a table
\* of exactly one data row: customer_id 5, ticket_id 9, priority high, issue
\* "late delivery".
C17_EndToEndOneRow ==
    (rpc = "done" /\ rtext = ActiveOpenText /\ ClaimBackend) =>
        /\ Len(open_rows) = 1
        /\ open_rows[1].customer_id = 5
        /\ open_rows[1].ticket_id = 9
        /\ open_rows[1].priority = "high"
        /\ open_rows[1].issue = "late delivery"
        /\ final[3] = TableHeader \o "\n"
                        \o "| 5 | Ann | ann@x.io | 9 | high | open | late delivery |"

C17_Witness ==
    /\ rpc = "done" /\ rtext = ActiveOpenText /\ ClaimBackend
    /\ \E c \in backend.customers : c.status = "disabled"
    /\ \E t \in backend.tickets : t.customer_id # 5 /\ t.status = "open"
    /\ Len(issued) = 2
    /\ Len(open_rows) = 1

(***************************************************************************)
(* The fan-out table: order of the rows.                                   *)
(***************************************************************************)
\* the rows collected from the history replies, in the order of the calls
RECURSIVE CollectedRows(_)
CollectedRows(k) ==
    IF k = 0 THEN <<>>
    ELSE CollectedRows(k - 1)
            \o RowsOf(active_ids[k], customers_by_id, ParsedTickets(replies[k + 1]))

Occurrences(rows, r) == Cardinality({i \in 1..Len(rows) : rows[i] = r})

IsPermutation(a, b) ==
    /\ Len(a) = Len(b)
    /\ \A i \in 1..Len(a) : Occurrences(a, a[i]) = Occurrences(b, a[i])

\* high=0, medium=1, low=2, any other value=9, on the priority as it stands
ExactRank(p) ==
    IF p = "high" THEN 0 ELSE IF p = "medium" THEN 1 ELSE IF p = "low" THEN 2 ELSE 9

\* the same ranks on the lower-cased priority
FoldedRank(p) == ExactRank(Lower(p))

OrderedBy(rows, Rank(_)) ==
    \A i \in 1..Len(rows) : \A j \in (i + 1)..Len(rows) :
        \/ Rank(rows[i].priority) < Rank(rows[j].priority)
        \/ /\ Rank(rows[i].priority) = Rank(rows[j].priority)
           /\ rows[i].customer_id <= rows[j].customer_id

FanoutDone == rpc = "done" /\ intent.list_active_open

\* the data rows of the rendered table, in order
TableShows(rows) ==
    final[3] = JoinLines(<<TableHeader>> \o [i \in 1..Len(rows) |-> TableRow(rows[i])])

\* C21 as stated: the data rows are a permutation of the collected rows,
\* ordered by the rank of the priority value (high=0, medium=1, low=2, any
\* other value=9), then by customer id.
C21_Original ==
    (FanoutDone /\ open_rows # <<>>) =>
        /\ IsPermutation(open_rows, CollectedRows(Len(active_ids)))
        /\ OrderedBy(open_rows, ExactRank)
        /\ TableShows(open_rows)

\* C21, amended: the data rows of the fan-out table are a permutation of the
\* collected open-ticket rows (none dropped, none duplicated), ordered by the
\* rank of the lower-cased priority (high=0, medium=1, low=2, anything else
\* 9) ascending and, among rows of equal rank, by customer id ascending.
C21_SortedPermutation ==
    (FanoutDone /\ open_rows # <<>>) =>
        /\ IsPermutation(open_rows, CollectedRows(Len(active_ids)))
        /\ OrderedBy(open_rows, FoldedRank)
        /\ TableShows(open_rows)

C21_Witness ==
    /\ FanoutDone
    /\ Len(open_rows) = 4
    /\ open_rows # CollectedRows(Len(active_ids))
    /\ open_rows[2].priority = "Low"
    /\ open_rows[3].priority = "urgent"
    /\ open_rows[2].customer_id > open_rows[3].customer_id

(***************************************************************************)
(* extract_text_from_a2a: the reply text of a downstream response.         *)
(***************************************************************************)
MaxParts == 2

\* The parts a result may hold: dicts with or without "kind" == "text" and
\* with or without a "text" key, and a part that is not a dict.
PartPool ==
    {[dict |-> TRUE, kind |-> "text", has_text |-> TRUE, text |-> "ab"],
     [dict |-> TRUE, kind |-> "text", has_text |-> TRUE, text |-> " c\n"],
     [dict |-> TRUE, kind |-> "text", has_text |-> TRUE, text |-> ""],
     [dict |-> TRUE, kind |-> "text", has_text |-> FALSE, text |-> ""],
     [dict |-> TRUE, kind |-> "data", has_text |-> TRUE, text |-> "d"],
     [dict |-> TRUE, kind |-> "data", has_text |-> FALSE, text |-> ""],
     [dict |-> FALSE, kind |-> "", has_text |-> FALSE, text |-> ""]}

Responses ==
    {[has_result |-> FALSE, parts |-> <<>>]}
        \cup {[has_result |-> TRUE, parts |-> ps] :
                ps \in UNION {SeqsOfLen(PartPool, n) : n \in 0..MaxParts}}

\* json.dumps(resp, indent=2), the diagnostic fallback
DumpsPart(p, lvl) ==
    IF ~p.dict THEN "7"
    ELSE DumpsObject(<<<<"kind", JsonDumpsStr(p.kind)>>>>
                        \o (IF p.has_text THEN <<<<"text", JsonDumpsStr(p.text)>>>> ELSE <<>>),
                     lvl)

DumpsResponse(r) ==
    DumpsObject(<<<<"jsonrpc", JsonDumpsStr("2.0")>>>>
                   \o (IF r.has_result
                       THEN <<<<"result",
                                DumpsObject(<<<<"parts",
                                                DumpsList([i \in 1..Len(r.parts) |->
                                                              DumpsPart(r.parts[i], 3)], 2)>>>>, 1)>>>>
                       ELSE <<>>),
                0)

\* a part whose text the loop appends to texts
BearsText(p) == p.dict /\ (p.kind = "text" \/ p.has_text)

\* Mutant: the texts are joined with nothing in between and not stripped.
JoinedTextsBare(ts) == JoinWith(ts, "")

\* "\n".join([t for t in texts if t]).strip()
JoinedTexts(ts) == LStrip(RStrip(JoinWith(SelectSeq(ts, LAMBDA t : t # ""), "\n")))

extract_text_from_a2a(r) ==
    IF ~r.has_result THEN DumpsResponse(r)
    ELSE LET bearing == SelectSeq(r.parts, BearsText)
             texts == [i \in 1..Len(bearing) |-> bearing[i].text]
             out == JoinedTexts(texts) IN
         IF out # "" THEN out ELSE DumpsResponse(r)

XOnly == UNCHANGED <<bvars, evars, rvars, backend, svars, cvars, qreq, qline, qdec>>

XInit == xresp \in Responses /\ xtext = <<>>

ExtractText ==
    /\ xresp # <<>>
    /\ xtext = <<>>
    /\ xtext' = <<extract_text_from_a2a(xresp)>>
    /\ UNCHANGED xresp
    /\ XOnly

XNext == ExtractText

InitExtract == XInit /\ BOff /\ EOff /\ ROff /\ backend = NoBackend /\ SOff /\ COff /\ QOff

SpecExtract == InitExtract /\ [][XNext]_vars

\* the texts of the text-bearing parts, one after the other
RECURSIVE PartsConcatenated(_)
PartsConcatenated(ps) ==
    IF ps = <<>> THEN ""
    ELSE (IF BearsText(ps[1]) THEN ps[1].text ELSE "") \o PartsConcatenated(Tail(ps))

\* C22: reply extraction returns the text-bearing parts of the response's
\* result concatenated in their original order, with nothing added between
\* the parts beyond the parts' own content.
C22_PartsConcatenatedUnseparated ==
    (xtext # <<>> /\ xresp.has_result /\ PartsConcatenated(xresp.parts) # "") =>
        xtext[1] = PartsConcatenated(xresp.parts)

(***************************************************************************)
(* detect_intent: the keyword groups.                                      *)
(***************************************************************************)
AccountHelpKeywords == {"account", "upgrade", "login", "access", "help"}
CancelKeywords == {"cancel", "cancellation", "subscription"}
BillingKeywords == {"billing", "charge", "charged", "invoice", "payment"}

Mentions(group) == \E k \in group : ContainsNoCase(k, rtext)

\* handle_router has computed the flags and no reply has come back yet
JustClassified == Entered /\ replies = <<>>

\* C23: each of the flags account_help, cancel and billing is set exactly
\* when a keyword of its own group occurs in the text, in any letter case,
\* whatever the other flags are; a text with keywords of several groups has
\* all their flags set.
C23_FlagsIndependent ==
    JustClassified =>
        /\ intent.account_help = Mentions(AccountHelpKeywords)
        /\ intent.cancel = Mentions(CancelKeywords)
        /\ intent.billing = Mentions(BillingKeywords)

C23_Witness ==
    /\ JustClassified
    /\ rtext = "Cancel payment"
    /\ intent.cancel /\ intent.billing /\ ~intent.account_help

(***************************************************************************)
(* A request on its way from a bridge's call_tool to the tool server:      *)
(* json.dumps(req) + "\n" on one side, `for line in sys.stdin` and         *)
(* json.loads(line) on the other.  A JSON value is a record: t is "s" (a   *)
(* str, in s), "n" (an int, in n), "o" (a dict, its items in o in          *)
(* insertion order) or "bad" (no value: the text is not JSON).             *)
(***************************************************************************)
MaxArgs == 2

JStr(v) == [t |-> "s", s |-> v, n |-> 0, o |-> <<>>]
JInt(v) == [t |-> "n", s |-> "", n |-> v, o |-> <<>>]
JObj(items) == [t |-> "o", s |-> "", n |-> 0, o |-> items]
JBad == [t |-> "bad", s |-> "", n |-> 0, o |-> <<>>]

\* The arguments the agents pass: a status, a limit, a customer id, the
\* data of an update; strings with the characters JSON has to escape.
ArgumentPool ==
    {<<"status", JStr("active")>>, <<"status", JStr("a\nb")>>,
     <<"limit", JInt(50)>>, <<"customer_id", JInt(5)>>, <<"customer_id", JInt(0)>>,
     <<"data", JObj(<<<<"email", JStr("a@b.c")>>>>)>>,
     <<"data", JObj(<<<<"email", JStr("\"q\\")>>>>)>>,
     <<"data", JObj(<<>>)>>}

ArgumentLists ==
    {a \in UNION {SeqsOfLen(ArgumentPool, n) : n \in 0..MaxArgs} :
        \A i \in 1..Len(a) : \A j \in 1..Len(a) : a[i][1] = a[j][1] => i = j}

WireRequests ==
    {[id |-> i, name |-> nm, arguments |-> a] :
        i \in {"0b2e-a1", "9f\"c"}, nm \in {"list_customers", "update_customer"},
        a \in ArgumentLists}

\* json.dumps of a value, with the default separators
RECURSIVE JsonDumps(_)
JsonDumps(v) ==
    IF v.t = "s" THEN JsonDumpsStr(v.s)
    ELSE IF v.t = "n" THEN NatToStr(v.n)
    ELSE "{" \o JoinWith([i \in 1..Len(v.o) |->
                            JsonDumpsStr(v.o[i][1]) \o ": " \o JsonDumps(v.o[i][2])], ", ")
             \o "}"

\* req as call_tool builds it
RequestObject(q) ==
    JObj(<<<<"jsonrpc", JStr("2.0")>>, <<"id", JStr(q.id)>>,
           <<"method", JStr("tools/call")>>,
           <<"params", JObj(<<<<"name", JStr(q.name)>>,
                              <<"arguments", JObj(q.arguments)>>>>)>>>>)

\* the closing quote of the JSON string whose characters start at w[i];
\* 0 when the text ends first
RECURSIVE StringEnd(_, _)
StringEnd(w, i) ==
    IF i > Len(w) THEN 0
    ELSE IF Chr(w, i) = "\\" THEN StringEnd(w, i + 2)
    ELSE IF Chr(w, i) = "\"" THEN i
    ELSE IF Chr(w, i) = "\n" THEN 0
    ELSE StringEnd(w, i + 1)

\* json.loads: the value that starts at w[i] and the position behind it
RECURSIVE ParseValue(_, _)
RECURSIVE ParseItems(_, _, _)
ParseValue(w, i) ==
    IF At(w, i) = "\""
    THEN The({IF e = 0 THEN [val |-> JBad, next |-> i]
              ELSE [val |-> JStr(JsonUnescape(SubSeq(w, i + 1, e - 1), 1)), next |-> e + 1] :
                 e \in {StringEnd(w, i + 1)}})
    ELSE IF IsDigit(At(w, i))
    THEN The({[val |-> JInt(StrToNat(SubSeq(w, i, e - 1))), next |-> e] :
                 e \in {DigitsEnd(w, i)}})
    ELSE IF At(w, i) = "{"
    THEN The({IF At(w, j) = "}" THEN [val |-> JObj(<<>>), next |-> j + 1]
              ELSE ParseItems(w, j, <<>>) : j \in {SkipSpaces(w, i + 1)}})
    ELSE [val |-> JBad, next |-> i]

\* the items of a dict from the key at w[i] on; got holds the items so far
ParseItems(w, i, got) ==
    The({IF k.val.t # "s" \/ At(w, SkipSpaces(w, k.next)) # ":"
         THEN [val |-> JBad, next |-> i]
         ELSE The({The({IF v.val.t = "bad" THEN [val |-> JBad, next |-> i]
                        ELSE IF At(w, j) = ","
                        THEN ParseItems(w, SkipSpaces(w, j + 1),
                                        Append(got, <<k.val.s, v.val>>))
                        ELSE IF At(w, j) = "}"
                        THEN [val |-> JObj(Append(got, <<k.val.s, v.val>>)), next |-> j + 1]
                        ELSE [val |-> JBad, next |-> i] :
                           j \in {SkipSpaces(w, v.next)}}) :
                     v \in {ParseValue(w, SkipSpaces(w, SkipSpaces(w, k.next) + 1))}}) :
            k \in {ParseValue(w, i)}})

\* json.loads(text): one value and nothing but white space around it
JsonLoads(text) ==
    The({IF p.val.t # "bad" /\ SkipSpaces(text, p.next) > Len(text) THEN p.val ELSE JBad :
            p \in {ParseValue(text, SkipSpaces(text, 1))}})

\* d.get(key): <<value>>, or <<>> for None
Get(d, key) ==
    LET idx == {i \in 1..Len(d.o) : d.o[i][1] = key} IN
    IF d.t # "o" \/ idx = {} THEN <<>> ELSE <<d.o[CHOOSE i \in idx : TRUE][2]>>

\* `x or {}`
OrEmptyDict(x) == IF x = <<>> \/ x[1] = JObj(<<>>) THEN JObj(<<>>) ELSE x[1]

\* `for line in sys.stdin`: the text up to and with the first newline
FirstLine(stream) ==
    LET ends == {i \in 1..Len(stream) : Chr(stream, i) = "\n"} IN
    IF ends = {} THEN stream ELSE SubSeq(stream, 1, CHOOSE i \in ends : \A j \in ends : i <= j)

\* the loop's req_id, method, name and args for one line; "crashed" when
\* json.loads raises
DecodeLine(line) ==
    The({IF req.t # "o" THEN [crashed |-> TRUE, id |-> <<>>, method |-> <<>>,
                              name |-> <<>>, arguments |-> JBad]
         ELSE The({[crashed |-> FALSE, id |-> Get(req, "id"), method |-> Get(req, "method"),
                    name |-> Get(params, "name"),
                    arguments |-> OrEmptyDict(Get(params, "arguments"))] :
                      params \in {OrEmptyDict(Get(req, "params"))}}) :
            req \in {JsonLoads(line)}})

QOnly == UNCHANGED <<bvars, evars, rvars, backend, svars, cvars, xresp, xtext>>

QInit == qreq \in WireRequests /\ qline = "" /\ qdec = <<>>

\* call_tool: self.proc.stdin.write(json.dumps(req) + "\n")
WriteRequest ==
    /\ qreq # <<>>
    /\ qline = ""
    /\ qline' = JsonDumps(RequestObject(qreq)) \o "\n"
    /\ UNCHANGED <<qreq, qdec>>
    /\ QOnly

\* the server's loop takes the line and decodes it
ReadRequest ==
    /\ qline # ""
    /\ qdec = <<>>
    /\ qdec' = <<DecodeLine(FirstLine(qline))>>
    /\ UNCHANGED <<qreq, qline>>
    /\ QOnly

QNext == WriteRequest \/ ReadRequest

InitWire == QInit /\ BOff /\ EOff /\ ROff /\ backend = NoBackend /\ SOff /\ COff /\ XOff

SpecWire == InitWire /\ [][QNext]_vars

\* C24: a request built by a bridge call, encoded to its one line and decoded
\* in the tool server, gives the same id, method, tool name and arguments.
C24_RequestRoundTrip ==
    /\ qline # "" =>
          /\ Chr(qline, Len(qline)) = "\n"
          /\ FirstLine(qline) = qline
    /\ qdec # <<>> =>
          /\ ~qdec[1].crashed
          /\ qdec[1].id = <<JStr(qreq.id)>>
          /\ qdec[1].method = <<JStr("tools/call")>>
          /\ qdec[1].name = <<JStr(qreq.name)>>
          /\ qdec[1].arguments = JObj(qreq.arguments)

C24_Witness ==
    /\ qdec # <<>>
    /\ qreq.id = "9f\"c"
    /\ Len(qreq.arguments) = 2
    /\ qreq.arguments[1] = <<"status", JStr("a\nb")>>
    /\ qreq.arguments[2] = <<"data", JObj(<<<<"email", JStr("\"q\\")>>>>)>>
    /\ qdec[1].arguments = JObj(qreq.arguments)

(***************************************************************************)
(* Downstream calls of one request are made one after the other.           *)
(***************************************************************************)
Outstanding == Len(issued) - Len(replies)

\* C25: within one request at most one downstream call is outstanding: a call
\* is issued only once every earlier call of the request has come back
\* (completed or failed), the history calls of the fan-out included.
C25_OneCallOutstanding ==
    /\ Len(pend) <= 1
    /\ Outstanding = Len(pend)
    /\ pend # <<>> => pend[1] = issued[Len(issued)]
    /\ rpc \in {"done", "raised"} => Outstanding = 0

C25_Witness ==
    /\ rpc = "hist"
    /\ ri = 2
    /\ Len(issued) = 3
    /\ Len(replies) = 2
    /\ ~replies[2].ok
    /\ pend = <<Call("DATA", HistoryMsg(active_ids[2]))>>

(***************************************************************************)
(* The fan-out report over a customers table with more active customers    *)
(* than the report asks histories for.                                     *)
(***************************************************************************)
MaxListed == 17

CapCustomer(i) ==
    [id |-> i, name |-> "N" \o NatToStr(i), email |-> "c@x.io", status |-> "active",
     updated_at |-> <<>>]

CapTicketPool ==
    {[id |-> 1, customer_id |-> 1, issue |-> "late", status |-> "open",
      priority |-> "low", created_at |-> Now],
     [id |-> 2, customer_id |-> FanoutCap, issue |-> "lost", status |-> "open",
      priority |-> "high", created_at |-> Now],
     [id |-> 3, customer_id |-> FanoutCap + 1, issue |-> "torn", status |-> "open",
      priority |-> "high", created_at |-> Now]}

CapDatabases ==
    {[on |-> TRUE, customers |-> {CapCustomer(i) : i \in 1..n}, tickets |-> ts] :
        n \in 0..MaxListed, ts \in SUBSET CapTicketPool}

InitCap ==
    /\ rpc = "recv" /\ rtext = ActiveOpenText /\ RBlank
    /\ backend \in CapDatabases
    /\ BOff /\ EOff /\ SOff /\ COff /\ XOff /\ QOff

CapNext == HandleRouter \/ ListDone \/ HistDone

SpecCap == InitCap /\ [][CapNext]_vars

\* the customers of the list reply, once it has come
Listed == IF replies = <<>> THEN <<>> ELSE ParsedCustomers(replies[1])

\* C26: a fan-out request issues at most 15 history calls, one for each of
\* the first 15 customer ids in the order of the list reply, hence at most 16
\* downstream calls, however many customers the list reply holds.
C26_FanoutCapped ==
    (Entered /\ intent.list_active_open) =>
        /\ Len(issued) <= FanoutCap + 1
        /\ issued[1] = Call("DATA", "List active customers")
        /\ Len(issued) - 1 <= Len(Listed)
        /\ \A k \in 2..Len(issued) : issued[k] = Call("DATA", HistoryMsg(Listed[k - 1].id))
        /\ rpc = "done" =>
              Len(issued) - 1 = (IF Len(Listed) > FanoutCap THEN FanoutCap ELSE Len(Listed))

C26_Witness ==
    /\ rpc = "done"
    /\ Len(Listed) = FanoutCap + 2
    /\ Len(issued) = FanoutCap + 1
    /\ issued[FanoutCap + 1] = Call("DATA", HistoryMsg(Listed[FanoutCap].id))
    /\ Len(open_rows) = 2

(***************************************************************************)
(* The rows of the fan-out table against the replies they were made from.  *)
(***************************************************************************)
\* the tickets of the history reply for the k-th queried customer
HistoryOf(k) == ParsedTickets(replies[k + 1])

\* the open tickets of the parsed histories: <<k, j>> is the j-th ticket in
\* the history of the k-th queried customer
OpenTickets ==
    {p \in UNION {{<<k, j>> : j \in 1..Len(HistoryOf(k))} : k \in 1..Len(active_ids)} :
        HistoryOf(p[1])[p[2]].status = "open"}

\* the name and email the list reply gives for a customer id
ListedAs(c_id, name, email) ==
    \E i \in 1..Len(Listed) :
        /\ Listed[i].id = c_id /\ Listed[i].name = name /\ Listed[i].email = email
        /\ \A j \in (i + 1)..Len(Listed) : Listed[j].id # c_id

\* row x shows ticket p
RowShows(x, p) ==
    LET t == HistoryOf(p[1])[p[2]] IN
    /\ x.customer_id = active_ids[p[1]]
    /\ x.ticket_id = t.id /\ x.priority = t.priority
    /\ x.status = t.status /\ x.issue = t.issue

\* C27: every data row of the fan-out table comes from a ticket with status
\* "open" in the history reply for the row's customer and carries that
\* customer's name and email from the list reply; every open ticket of a
\* parsed history is exactly one row; no closed ticket is a row.
C27_RowsAreOpenTickets ==
    FanoutDone =>
        /\ Len(open_rows) = Cardinality(OpenTickets)
        /\ \A i \in 1..Len(open_rows) :
              /\ open_rows[i].status = "open"
              /\ ListedAs(open_rows[i].customer_id, open_rows[i].customer_name,
                          open_rows[i].email)
              /\ \E p \in OpenTickets : RowShows(open_rows[i], p)
        /\ \A p \in OpenTickets :
              Cardinality({i \in 1..Len(open_rows) : RowShows(open_rows[i], p)})
                 = Cardinality({q \in OpenTickets :
                                  /\ active_ids[q[1]] = active_ids[p[1]]
                                  /\ HistoryOf(q[1])[q[2]] = HistoryOf(p[1])[p[2]]})

C27_Witness ==
    /\ FanoutDone
    /\ Len(active_ids) = 2
    /\ Len(HistoryOf(1)) = 3
    /\ HistoryOf(1)[1].status = "closed"
    /\ Len(HistoryOf(2)) = 1
    /\ Len(open_rows) = 3
    /\ open_rows[1].customer_name = "Bo|b"
    /\ open_rows[2].customer_name = "Ann"

(***************************************************************************)
(* The tool server's output stream against its input stream.               *)
(***************************************************************************)
\* the lines printed so far, in the order of printing
RECURSIVE Printed(_)
Printed(out) == IF out = <<>> THEN <<>> ELSE out[1] \o Printed(Tail(out))

\* C28: the tool server answers well-formed request lines in arrival order
\* with exactly one response line each; every response carries the id of the
\* request it answers and is either a result or an error.
C28_OneResponsePerLineInOrder ==
    (\A i \in 1..Len(sin) : sin[i].form = "object") =>
        /\ Len(Printed(sout)) = Len(sin)
        /\ \A i \in 1..Len(sin) :
              /\ sout[i] = <<Printed(sout)[i]>>
              /\ Printed(sout)[i].id = sin[i].id
              /\ Printed(sout)[i].kind \in {"result", "error"}
              /\ Printed(sout)[i].kind = "result" =>
                    \/ sin[i].method = <<"tools/list">>
                    \/ sin[i].method = <<"tools/call">> /\ sran[i] # <<>>
        /\ srv = "up"

C28_Witness ==
    /\ Len(sin) = 2
    /\ sin[1].form = "object" /\ sin[1].id = <<"b2">> /\ sin[1].method = <<"tools/list">>
    /\ sin[2].form = "object" /\ sin[2].id = <<"a1">> /\ sin[2].method = <<"tools/call">>
    /\ sin[2].name = <<"get_customer">>
    /\ Printed(sout) = <<[id |-> <<"b2">>, kind |-> "result", message |-> ""],
                         [id |-> <<"a1">>, kind |-> "error",
                          message |-> "no such table: customers"]>>

(***************************************************************************)
(* start / _start_mcp / ensure_started, call by call.                      *)
(***************************************************************************)
\* the step adds exactly one new process and makes it the handle
FreshSpawn ==
    /\ Len(procs') = Len(procs) + 1
    /\ SubSeq(procs', 1, Len(procs)) = procs
    /\ procs'[Len(procs')] = Popen
    /\ handle' = Len(procs')

SpawnsNothing == handle' = handle /\ procs' = procs

\* caller c leaves the test at the head of start in this step
Checks(c) == pc[c] = "start" /\ pc'[c] # "start"

\* C29: a call of start / _start_mcp / ensure_started that finds the
\* subprocess running spawns nothing and leaves the handle as it is, however
\* often it is repeated; a call that finds no process, or finds that the last
\* one has exited, replaces the handle with exactly one new process.
C29_EnsureStartedIdempotent ==
    [][\A c \in Callers :
          /\ Checks(c) =>
                IF handle # 0 /\ procs[handle].alive
                THEN SpawnsNothing /\ pc'[c] # "spawn"
                ELSE IF kind = KindAsync THEN FreshSpawn
                ELSE SpawnsNothing /\ pc'[c] = "spawn"
          /\ (pc[c] = "spawn" /\ pc'[c] # "spawn") =>
                FreshSpawn /\ calls'[cur[c]].spawned = handle']_vars

\* two calls: the first spawned, the second found that process running and
\* went through with it
C29_Witness ==
    /\ Len(calls) = 2
    /\ calls[1].seen = 0 /\ calls[1].spawned = 1
    /\ calls[2].seen = 1 /\ ~calls[2].sawDead /\ calls[2].spawned = 0
    /\ calls[2].outcome = "returned"
    /\ handle = 1 /\ Len(procs) = 1

(***************************************************************************)
(* The fan-out report when the list call gives no customer records.        *)
(***************************************************************************)
\* the list call failed, or its reply is not a JSON object
ListFailedOrUnparsed ==
    /\ Entered /\ intent.list_active_open
    /\ replies # <<>>
    /\ ~replies[1].ok \/ replies[1].json.kind # "object"

\* C30: in the fan-out branch, if the list call fails or its reply cannot be
\* parsed into customer records, no history call is issued, the audit log has
\* exactly one call entry, and the table is the header plus the one
\* placeholder row "No open tickets found".
C30_FailedListGivesPlaceholder ==
    ListFailedOrUnparsed =>
        /\ issued = <<Call("DATA", "List active customers")>>
        /\ log_short = RouterLogHeader
                          \o LogEntry("DATA", "List active customers", replies[1])
        /\ rpc = "done"
        /\ final = FanoutAnswer(<<>>, log_short)
        /\ final[3] = TableHeader
              \o "\n| (none) | (none) | (none) | (none) | (none) | (none) | No open tickets found |"

(***************************************************************************)
(* The pipes one call of MCPStdioClient.call_tool uses.                    *)
(***************************************************************************)
\* C31: in MCPStdioClient.call_tool a caller reads from the stdout of the
\* subprocess to whose stdin it wrote its request, also when another thread's
\* start() has replaced the handle because the first subprocess died.
C31_ReadsWhereItWrote ==
    kind = KindStdio =>
        /\ \A c \in Callers : pc[c] = "read" => ProcNow(c) = wt[c]
        /\ \A k \in 1..Len(calls) :
              calls[k].line # "none" => calls[k].rfrom = calls[k].target

(***************************************************************************)
(* Termination of the calls on one bridge.  Threads and tasks that can     *)
(* take a step do so in the end, and a live subprocess with a request line *)
(* on its stdin gets to its next loop iteration (it answers the line, or   *)
(* exits on a line it cannot parse) unless it exits before.  Nothing is    *)
(* assumed about new calls arriving or about processes exiting.            *)
(***************************************************************************)
CallerStep(c) ==
    \/ StartCheck(c) \/ Spawn(c) \/ Acquire(c)
    \/ WriteBody(c) \/ WriteNl(c) \/ Read(c)

Fairness ==
    /\ \A c \in Callers : WF_vars(CallerStep(c))
    /\ \A p \in 1..MaxProcs : WF_vars(Serve(p))

SpecLive == Init /\ [][Next]_vars /\ Fairness

AllIdle == \A c \in Callers : pc[c] = "idle"

\* C32: for any interleaving of concurrent callers on one bridge, if every
\* subprocess answers each request line it receives or closes its stdout,
\* every call returns or raises in the end, and the lock is free once the
\* calls are over: no caller waits forever for the lock or for a response.
C32_EveryCallEnds ==
    /\ \A c \in Callers : (pc[c] # "idle") ~> (pc[c] = "idle")
    /\ [](AllIdle => \A l \in DOMAIN lock : lock[l] = 0)

====
